---- MODULE Spec2Model ----
(***************************************************************************)
(* A model of veranda's RasterData hierarchy (src/src/veranda/raster.py):  *)
(* RasterLayer and RasterStack nodes that bind an array to a raster        *)
(* geometry, and the operations that load, crop and mask them.             *)
(*                                                                         *)
(* Nodes live in an arena (`nodes`); a node's `parent` is the arena index  *)
(* of the node it was derived from, which is how Python's object reference *)
(* `parent=self` behaves.  Python's None is 0 for indices, labels and io   *)
(* handles, and the empty sequence for optional records.                   *)
(*                                                                         *)
(* All geometries share one spatial reference and a pixel size of 1, are   *)
(* north-up, and are given by their size and the world coordinate of their *)
(* upper-left corner.  Points are given in doubled world coordinates, so   *)
(* that a pixel centre (x + 0.5) is an integer.                            *)
(***************************************************************************)
EXTENDS Integers, Sequences, FiniteSets, TLC

\* ------------------------------------------------------------------ bounds

\* Rows and columns of the raster file behind a root node.
FileRows == 2
FileCols == 3
\* Layers of the raster file behind a root stack.
FileLayers == 2
\* Method calls made on the nodes after the root's construction.
MaxCalls == 2
\* y world coordinate of the upper edge of the file's first row.
WorldTop == 10

Max(a, b) == IF a >= b THEN a ELSE b
Min(a, b) == IF a <= b THEN a ELSE b

\* ------------------------------------------------------ arrays (numpy side)

\* Index tuples of an array of the given shape (2 or 3 axes, 0-based).
Idx(shape) ==
    IF Len(shape) = 2
    THEN {<<i, j>> : i \in 0..(shape[1] - 1), j \in 0..(shape[2] - 1)}
    ELSE {<<l, i, j>> : l \in 0..(shape[1] - 1), i \in 0..(shape[2] - 1),
                        j \in 0..(shape[3] - 1)}

\* Value stored in the file at layer l, row r, column c.
FileVal(l, r, c) == 100 * l + 10 * r + c

\* Python's slice(start, stop) resolved against an axis of length n: the
\* sequence of selected positions.  Negative bounds count from the end.
SliceSel(n, start, stop) ==
    LET a0 == IF start < 0 THEN Max(start + n, 0) ELSE Min(start, n)
        b0 == IF stop < 0 THEN Max(stop + n, 0) ELSE Min(stop, n)
    IN  [k \in 1..Max(b0 - a0, 0) |-> a0 + k - 1]

FullSel(n) == [k \in 1..n |-> k - 1]

\* numpy basic indexing data[sels]: the selectors apply to the LEADING axes,
\* the remaining axes are taken whole.  A selector is a pair <<start, stop>>
\* (a slice) or <<"list", positions>> resolved by ResolveSel.
ResolveSel(n, sel) ==
    IF sel[1] = "slice" THEN SliceSel(n, sel[2], sel[3]) ELSE sel[2]

\* FALSE when data[sels] raises IndexError: more selectors than axes, or a
\* listed position outside its axis.
SelsOk(arr, sels) ==
    /\ Len(sels) <= Len(arr.shape)
    /\ \A k \in 1..Len(sels) :
          sels[k][1] = "list" =>
             \A j \in 1..Len(sels[k][2]) :
                sels[k][2][j] >= 0 /\ sels[k][2][j] < arr.shape[k]

TakeArray(arr, sels) ==
    LET nd   == Len(arr.shape)
        rs   == [k \in 1..nd |->
                    IF k <= Len(sels) THEN ResolveSel(arr.shape[k], sels[k])
                    ELSE FullSel(arr.shape[k])]
        shp  == [k \in 1..nd |-> Len(rs[k])]
        src(i) == [k \in 1..nd |-> rs[k][i[k] + 1]]
    IN  [rep   |-> arr.rep,
         var   |-> arr.var,
         shape |-> shp,
         v     |-> [i \in Idx(shp) |-> arr.v[src(i)]],
         m     |-> IF arr.m = <<>> THEN <<>>
                   ELSE <<[i \in Idx(shp) |-> arr.m[1][src(i)]]>>]

\* ------------------------------------------- geometry capability (geospade)

Geom(nr, nc, ulx, uly) == [n_rows |-> nr, n_cols |-> nc, ul_x |-> ulx, ul_y |-> uly]

\* Geometry of the raster file: FileRows x FileCols, upper-left corner at
\* (0, WorldTop), i.e. geotransform (0, 1, 0, WorldTop, 0, -1).
FileGeom == Geom(FileRows, FileCols, 0, WorldTop)

\* `a & b`: the raster geometry of the overlap of a with b, <<>> if none.
GeomIntersection(a, b) ==
    LET left   == Max(a.ul_x, b.ul_x)
        right  == Min(a.ul_x + a.n_cols, b.ul_x + b.n_cols)
        top    == Min(a.ul_y, b.ul_y)
        bottom == Max(a.ul_y - a.n_rows, b.ul_y - b.n_rows)
    IN  IF left < right /\ bottom < top
        THEN <<Geom(top - bottom, right - left, left, top)>>
        ELSE <<>>

\* intersects(other) for a geometry.
GeomIntersects(a, b) == GeomIntersection(a, b) # <<>>

\* within(other) for a geometry: other lies fully inside a.
GeomWithin(a, b) ==
    /\ a.ul_x <= b.ul_x /\ b.ul_x + b.n_cols <= a.ul_x + a.n_cols
    /\ b.ul_y <= a.ul_y /\ a.ul_y - a.n_rows <= b.ul_y - b.n_rows

\* intersects(poi) / within(poi) for a point in doubled world coordinates.
PointInside(a, x2, y2) ==
    /\ 2 * a.ul_x <= x2 /\ x2 <= 2 * (a.ul_x + a.n_cols)
    /\ 2 * (a.ul_y - a.n_rows) <= y2 /\ y2 <= 2 * a.ul_y

\* xy2rc with px_origin "ul": the pixel (row, col) holding world point (x, y).
xy2rc(g, x2, y2) == <<(2 * g.ul_y - y2) \div 2, (x2 - 2 * g.ul_x) \div 2>>

\* inner_extent: (min_x, min_y, max_x, max_y) of the pixels' upper-left corners.
inner_extent(g) == <<g.ul_x, g.ul_y - (g.n_rows - 1), g.ul_x + g.n_cols - 1, g.ul_y>>

\* rel_extent(origin, extent): (min_col, min_row, max_col, max_row) of the
\* extent relative to the origin, maxima included.
rel_extent(ox, oy, ext) == <<ext[1] - ox, oy - ext[4], ext[3] - ox, oy - ext[2]>>

\* crop_px_extent(min_row, min_col, max_row, max_col): the pixel extent
\* clipped to the geometry, maxima included.
crop_px_extent(g, min_row, min_col, max_row, max_col) ==
    <<Max(0, min_row), Max(0, min_col),
      Min(g.n_rows - 1, max_row), Min(g.n_cols - 1, max_col)>>

\* intersection_by_pixel(px_extent): px_extent is read as (min_row, min_col,
\* max_row, max_col) with the maxima included, clipped to the geometry; <<>>
\* when nothing is left.
intersection_by_pixel(g, px) ==
    LET c == crop_px_extent(g, px[1], px[2], px[3], px[4])
    IN  IF c[1] <= c[3] /\ c[2] <= c[4]
        THEN <<Geom(c[3] - c[1] + 1, c[4] - c[2] + 1, g.ul_x + c[2], g.ul_y - c[1])>>
        ELSE <<>>

\* create_mask(geom): an n_rows x n_cols boolean array over g, TRUE where the
\* pixel lies outside geom.
create_mask(g, geom) ==
    [rep |-> "numpy", var |-> 0, shape |-> <<g.n_rows, g.n_cols>>,
     v |-> [i \in Idx(<<g.n_rows, g.n_cols>>) |->
              ~ GeomWithin(geom, Geom(1, 1, g.ul_x + i[2], g.ul_y - i[1]))],
     m |-> <<>>]

\* ------------------------------------------------- format driver (io class)

\* The array a driver holds for a file window; row/col are file pixel indices.
FileArray(nd, row, col, n_rows, n_cols) ==
    LET shp == IF nd = 2 THEN <<n_rows, n_cols>> ELSE <<FileLayers, n_rows, n_cols>>
    IN  [rep |-> "numpy", var |-> 0, shape |-> shp,
         v |-> [i \in Idx(shp) |->
                  IF nd = 2 THEN FileVal(0, row + i[1], col + i[2])
                  ELSE FileVal(i[1], row + i[2], col + i[3])],
         m |-> <<>>]

\* io.read(row, col, row_size, col_size): <<>> is Python's None.  rc = <<>>
\* reads the whole file; otherwise rc = <<row, col, row_size, col_size>>.  A
\* window that is empty or not inside the file yields no data.
DriverRead(nd, rc) ==
    IF rc = <<>> THEN <<FileArray(nd, 0, 0, FileRows, FileCols)>>
    ELSE IF /\ rc[1] >= 0 /\ rc[2] >= 0 /\ rc[3] >= 1 /\ rc[4] >= 1
            /\ rc[1] + rc[3] <= FileRows /\ rc[2] + rc[4] <= FileCols
         THEN <<FileArray(nd, rc[1], rc[2], rc[3], rc[4])>>
         ELSE <<>>

\* ------------------------------------------------ representation conversion

\* Number of default dimension names, ['y', 'x', 'time'].
NDimNames == 3

Rank(arr) == Len(arr.shape)

\* convert_data_type(data, *coord_args, data_type=.., band=..) with the default
\* dim_names; coordLens holds the length of each coordinate argument.  <<>>
\* stands for a raised exception, <<array>> for the converted data.
convert_data_type(data, coordLens, data_type, band) ==
    IF Len(coordLens) # NDimNames THEN <<>>
    ELSE IF data_type = "xarray"
    THEN IF data.rep = "numpy"
         THEN \* xr.DataArray(data, coords, dims): one coordinate per axis,
              \* each as long as its axis
              IF /\ Rank(data) = NDimNames
                 /\ \A k \in 1..NDimNames : coordLens[k] = data.shape[k]
              THEN <<[data EXCEPT !.rep = "xarray", !.var = band]>>
              ELSE <<>>
         ELSE IF data.rep = "xarray" THEN <<data>>
         ELSE <<>>
    ELSE IF data_type = "numpy"
    THEN IF data.rep = "xarray"
         THEN IF band = 0 \/ band # data.var THEN <<>>
              ELSE <<[data EXCEPT !.rep = "numpy", !.var = 0]>>
         ELSE IF data.rep = "numpy" THEN <<data>>
         ELSE <<>>
    ELSE IF data_type = "dataframe"
    THEN \* convert_data_type(data, 'xarray', *coord_args, ..): the string is
         \* one more coordinate argument
         IF Len(coordLens) + 1 # NDimNames THEN <<>>
         ELSE <<[data EXCEPT !.rep = "dataframe"]>>
    ELSE <<>>

\* ------------------------------------------------------------------- nodes

\* Rank a class requires of its data: 2 for a layer, 3 for a stack.
KindRank(kind) == IF kind = "layer" THEN 2 ELSE 3

\* RasterLayer._check_data / RasterStack._check_data on data that is not None:
\* TRUE when the check passes, FALSE when it raises.
CheckDataOk(kind, data) == Rank(data) = KindRank(kind)

\* RasterLayer(n_rows, n_cols, sref, geotrans): the layer object that
\* from_array and from_io put into raster_layers, without data or io.
NoLayers == [objs |-> <<>>, refs |-> <<>>]
LayerDescriptor(geom) ==
    [kind |-> "layer", geom |-> geom, data |-> <<>>, data_type |-> "numpy",
     io |-> 0, label |-> 0, parent |-> 0, layer_ids |-> <<>>,
     raster_layers |-> NoLayers]

\* RasterData.__init__ (through RasterLayer.__init__ / RasterStack.__init__):
\* raster_layers holds the layer objects of a stack (objs) and, for every
\* position of the series, which of them it refers to (refs): from_array and
\* from_io fill the series with one object, [RasterLayer(..)] * n_layers.
\* <<>> when the constructor raises, else <<node>>.  data is <<>> or <<array>>.
\* layer_ids is the index of raster_layers (empty for a layer).
NewNode(kind, geom, data, data_type, io, label, parent, layer_ids) ==
    IF data # <<>> /\ ~ CheckDataOk(kind, data[1]) THEN <<>>
    ELSE <<[kind |-> kind, geom |-> geom, data |-> data, data_type |-> data_type,
            io |-> io, label |-> label, parent |-> parent, layer_ids |-> layer_ids,
            raster_layers |->
               IF kind = "layer" THEN NoLayers
               ELSE [objs |-> <<LayerDescriptor(geom)>>,
                     refs |-> [k \in 1..Len(layer_ids) |-> 1]]]>>

\* RasterStack.__init__: the base geometry is that of raster_layers[..][0],
\* looked up by label 0 in the index.
NewStack(geom, data, data_type, io, label, parent, layer_ids) ==
    IF \A k \in 1..Len(layer_ids) : layer_ids[k] # 0 THEN <<>>
    ELSE NewNode("stack", geom, data, data_type, io, label, parent, layer_ids)

\* A faulty from_array that does not hand the data to the constructor: the
\* node it builds has the geometry of the data but no array.
from_array_without_data(kind, ulx, uly, data, data_type, io, label, parent) ==
    IF Rank(data) # KindRank(kind) THEN <<>>
    ELSE IF kind = "layer"
    THEN NewNode("layer", Geom(data.shape[1], data.shape[2], ulx, uly), <<>>,
                 data_type, io, label, parent, <<>>)
    ELSE NewStack(Geom(data.shape[2], data.shape[3], ulx, uly), <<>>,
                  data_type, io, label, parent,
                  [k \in 1..data.shape[1] |-> k - 1])

\* RasterLayer.from_array / RasterStack.from_array (layer_ids=None): the
\* geometry takes its size from the data and its origin from geotrans.
from_array(kind, ulx, uly, data, data_type, io, label, parent) ==
    IF Rank(data) # KindRank(kind) THEN <<>>
    ELSE IF kind = "layer"
    THEN NewNode("layer", Geom(data.shape[1], data.shape[2], ulx, uly), <<data>>,
                 data_type, io, label, parent, <<>>)
    ELSE NewStack(Geom(data.shape[2], data.shape[3], ulx, uly), <<data>>,
                  data_type, io, label, parent,
                  [k \in 1..data.shape[1] |-> k - 1])

\* RasterLayer._convert_data_type / RasterStack._convert_data_type.
ConvertNodeData(n, data, data_type, raster_geom) ==
    LET rg == IF raster_geom = <<>> THEN n.geom ELSE raster_geom[1]
        coords == IF n.kind = "layer" THEN <<rg.n_rows, rg.n_cols>>
                  ELSE <<Len(n.layer_ids), rg.n_rows, rg.n_cols>>
    IN  convert_data_type(data, coords, data_type, n.label)

\* ----------------------------------------------------------------- methods
\* A method is an operator from the arena ns, the receiver's index self and
\* the arguments to its outcome: the arena afterwards, the returned node
\* (ret, 0 for None), whether an exception was raised (err), the windows
\* requested from the driver (reads) and whether a warning was emitted.

Outcome(ns, ret, err, reads, warn) ==
    [ns |-> ns, ret |-> ret, err |-> err, reads |-> reads, warn |-> warn]

\* A faulty raise that hands back None instead of raising.
ReturnsNone(ns, reads) == Outcome(ns, 0, FALSE, reads, FALSE)

Raised(ns, reads) == Outcome(ns, 0, TRUE, reads, FALSE)

\* The tail shared by load and _load_array: with inplace the receiver takes
\* the new node's data_type, data and geometry and nothing is returned;
\* otherwise the new node is returned.
Deliver(ns, self, new, inplace, reads) ==
    IF inplace
    THEN Outcome([ns EXCEPT ![self].data_type = new.data_type,
                            ![self].data = new.data,
                            ![self].geom = new.geom], 0, FALSE, reads, FALSE)
    ELSE Outcome(Append(ns, new), Len(ns) + 1, FALSE, reads, FALSE)

\* RasterData.load.  data_type "" is None; io 0 is None; rc is <<>> (no row/col
\* in read_kwargs) or <<row, col, row_size, col_size>>.
load(ns, self, io, rc, data_type, inplace) ==
    LET n    == ns[self]
        io1  == IF io = 0 THEN n.io ELSE io
        dt   == IF data_type = "" THEN n.data_type ELSE data_type
        data == DriverRead(KindRank(n.kind), rc)
        rd   == <<rc>>
    IN  IF io1 = 0 THEN Raised(ns, <<>>)
        ELSE IF data = <<>> THEN Raised(ns, rd)
        ELSE IF ~ CheckDataOk(n.kind, data[1]) THEN Raised(ns, rd)
        ELSE
          LET max_row == rc[1] + rc[3] - 1
              max_col == rc[2] + rc[4] - 1
              g    == IF rc # <<>>
                      THEN intersection_by_pixel(n.geom, <<rc[1], max_row, rc[2], max_col>>)
                      ELSE <<n.geom>>
              conv == ConvertNodeData(n, data[1], dt, g)
              new  == from_array(n.kind, g[1].ul_x, g[1].ul_y, conv[1], dt, n.io,
                                 n.label, self)
          IN  IF conv = <<>> \/ g = <<>> THEN Raised(ns, rd)
              ELSE IF new = <<>> THEN Raised(ns, rd)
              ELSE Deliver(ns, self, new[1], inplace, rd)

\* RasterData._load_array.  px is <<row start, row stop, col start, col stop>>
\* of px_slices; slices is <<>> (None) or the selectors of the leading axes.
\* band 0 is None.
LoadArray(ns, self, px, slices, band, data_type, inplace) ==
    LET n    == ns[self]
        dt   == IF data_type = "" THEN n.data_type ELSE data_type
        bnd  == IF band = 0 /\ n.label # 0 THEN n.label ELSE band
        sels == slices \o <<(<<"slice", px[1], px[2]>>), (<<"slice", px[3], px[4]>>)>>
    IN  IF n.data = <<>> THEN Raised(ns, <<>>)
        ELSE IF ~ (n.data[1].rep \in {"numpy", "xarray"}) THEN Raised(ns, <<>>)
        ELSE IF ~ SelsOk(n.data[1], sels) THEN Raised(ns, <<>>)
        ELSE IF n.data[1].rep = "xarray" /\ bnd # 0 /\ bnd # n.data[1].var
        THEN Raised(ns, <<>>)
        ELSE
          LET data == TakeArray(n.data[1], sels)
              g    == intersection_by_pixel(n.geom, <<px[1], px[3], px[2], px[4]>>)
              conv == ConvertNodeData(n, data, dt, g)
              new  == from_array(n.kind, g[1].ul_x, g[1].ul_y, conv[1], dt, n.io,
                                 n.label, self)
          IN  IF conv = <<>> \/ g = <<>> THEN Raised(ns, <<>>)
              ELSE IF new = <<>> THEN Raised(ns, <<>>)
              ELSE Deliver(ns, self, new[1], inplace, <<>>)

Size(shape) == IF Len(shape) = 2 THEN shape[1] * shape[2]
               ELSE shape[1] * shape[2] * shape[3]

\* Row-major position of index i in an array of the given shape, and back.
Flat(i, shape) == IF Len(shape) = 2 THEN i[1] * shape[2] + i[2]
                  ELSE (i[1] * shape[2] + i[2]) * shape[3] + i[3]

Unflat(k, shape) ==
    IF Len(shape) = 2 THEN <<k \div shape[2], k % shape[2]>>
    ELSE <<k \div (shape[2] * shape[3]), (k \div shape[3]) % shape[2], k % shape[3]>>

\* np.stack([mask] * n, axis=0) of a 2-D mask.
StackMask(mask, n) ==
    LET shp == <<n, mask.shape[1], mask.shape[2]>>
    IN  [mask EXCEPT !.shape = shp,
                     !.v = [i \in Idx(shp) |-> mask.v[<<i[2], i[3]>>]]]

\* np.ma.array(data, mask=mask): a mask of another shape is repeated when it
\* has one element, reshaped when it has as many elements as the data, and
\* refused otherwise (<<>>).  Values are kept; an existing mask is kept too.
MaskedArray(data, mask) ==
    LET fit(i) == IF mask.shape = data.shape THEN mask.v[i]
                  ELSE IF Size(mask.shape) = 1 THEN mask.v[Unflat(0, mask.shape)]
                  ELSE mask.v[Unflat(Flat(i, data.shape), mask.shape)]
        old(i) == IF data.m = <<>> THEN FALSE ELSE data.m[1][i]
    IN  IF /\ mask.shape # data.shape
           /\ Size(mask.shape) # 1
           /\ Size(mask.shape) # Size(data.shape)
        THEN <<>>
        ELSE <<[data EXCEPT !.m = <<[i \in Idx(data.shape) |-> fit(i) \/ old(i)]>>]>>

\* RasterData.apply_mask.  data is <<>> (use the node's own) or <<array>>.
\* For a labeled dataset the mask is assigned into the dataset's own
\* variable (data_ar.data = ..), so the dataset that was passed, or the
\* receiver's own, carries the mask afterwards whatever inplace is.
apply_mask(ns, self, mask, data, band, inplace) ==
    LET n   == ns[self]
        d   == IF data # <<>> THEN data ELSE n.data
        bnd == IF band = 0 /\ n.label # 0 THEN n.label ELSE band
    IN  IF data # <<>> /\ ~ CheckDataOk(n.kind, data[1]) THEN Raised(ns, <<>>)
        ELSE IF d = <<>> THEN Raised(ns, <<>>)
        ELSE IF ~ (d[1].rep \in {"numpy", "xarray"}) THEN Raised(ns, <<>>)
        ELSE
          LET a    == d[1]
              grow == Rank(a) = 3 /\ Rank(mask) = 2
              mk   == IF grow THEN StackMask(mask, a.shape[1]) ELSE mask
              md   == MaskedArray(a, mk)
              ns1  == IF a.rep = "xarray" /\ data = <<>>
                      THEN [ns EXCEPT ![self].data = md] ELSE ns
              new  == from_array(n.kind, n.geom.ul_x, n.geom.ul_y, md[1], n.data_type,
                                 n.io, n.label, self)
          IN  IF a.rep = "xarray" /\ grow THEN Raised(ns, <<>>)
              ELSE IF ~ grow /\ Rank(a) # Rank(mask) THEN Raised(ns, <<>>)
              ELSE IF a.rep = "xarray" /\ (bnd = 0 \/ bnd # a.var) THEN Raised(ns, <<>>)
              ELSE IF md = <<>> THEN Raised(ns, <<>>)
              ELSE IF new = <<>> THEN Raised(ns1, <<>>)
              ELSE IF inplace
              THEN Outcome([ns1 EXCEPT ![self].data = new[1].data], self, FALSE,
                           <<>>, FALSE)
              ELSE Outcome(Append(ns1, new[1]), Len(ns1) + 1, FALSE, <<>>, FALSE)

\* The mask step shared by crop and load_by_geom: r is the outcome of the
\* load, e the pixel extent (min_col, min_row, max_col, max_row), ns0 the
\* arena before the call (what is left when the step raises on a new node).
MaskStep(r, e, geom, ns0, inplace) ==
    IF r.ret = 0 THEN Raised(r.ns, r.reads)
    ELSE
      LET mask == create_mask(r.ns[r.ret].geom, geom)
          sub  == TakeArray(mask, <<(<<"slice", e[2], e[4] + 1>>),
                                    (<<"slice", e[1], e[3] + 1>>)>>)
          r2   == apply_mask(r.ns, r.ret, sub, <<>>, 0, TRUE)
      IN  IF r2.err THEN Raised(IF inplace THEN r.ns ELSE ns0, r.reads)
          ELSE Outcome(r2.ns, r.ret, FALSE, r.reads, FALSE)

\* RasterData.crop.
crop(ns, self, geom, slices, applyMask, inplace) ==
    LET n  == ns[self]
        ig == GeomIntersection(n.geom, geom)
    IN  IF ig # <<>> /\ n.data # <<>>
        THEN LET e == rel_extent(n.geom.ul_x, n.geom.ul_y, inner_extent(ig[1]))
                 r == LoadArray(ns, self, <<e[2], e[4] + 1, e[1], e[3] + 1>>, slices,
                                0, "", inplace)
             IN  IF r.err \/ ~ applyMask THEN r
                 ELSE MaskStep(r, e, geom, ns, inplace)
        ELSE Outcome(ns, 0, FALSE, <<>>, FALSE)

\* RasterData.parent_root: follow parent until a node has none.
RECURSIVE parent_root(_, _)
parent_root(ns, i) == IF ns[i].parent = 0 THEN i ELSE parent_root(ns, ns[i].parent)

\* A faulty load_by_coords without the test against the root geometry: every
\* coordinate is taken to a pixel and loaded.
load_by_coords_without_root_test(ns, self, x2, y2, slices, band, data_type, inplace) ==
    LET n  == ns[self]
        dt == IF data_type = "" THEN n.data_type ELSE data_type
        rc == xy2rc(n.geom, x2, y2)
    IN  IF n.data = <<>> \/ ~ PointInside(n.geom, x2, y2)
        THEN load(ns, self, 0, <<rc[1], rc[2], 1, 1>>, dt, inplace)
        ELSE LoadArray(ns, self, <<rc[1], rc[1] + 1, rc[2], rc[2] + 1>>, slices,
                       band, dt, inplace)

\* RasterData.load_by_coords, px_origin "ul"; the point is (x2/2, y2/2).
load_by_coords(ns, self, x2, y2, slices, band, data_type, inplace) ==
    LET n  == ns[self]
        dt == IF data_type = "" THEN n.data_type ELSE data_type
        rc == xy2rc(n.geom, x2, y2)
    IN  IF PointInside(ns[parent_root(ns, self)].geom, x2, y2)
        THEN IF n.data = <<>> \/ ~ PointInside(n.geom, x2, y2)
             THEN \* row and col only: the sizes default to 1
                  load(ns, self, 0, <<rc[1], rc[2], 1, 1>>, dt, inplace)
             ELSE LoadArray(ns, self, <<rc[1], rc[1] + 1, rc[2], rc[2] + 1>>, slices,
                            band, dt, inplace)
        ELSE Outcome(ns, self, FALSE, <<>>, TRUE)

\* RasterData.load_by_geom.
load_by_geom(ns, self, geom, slices, band, data_type, applyMask, inplace) ==
    LET n  == ns[self]
        dt == IF data_type = "" THEN n.data_type ELSE data_type
        ig == GeomIntersection(n.geom, geom)
    IN  IF ig = <<>> THEN Raised(ns, <<>>)  \* None has no inner_extent
        ELSE
          LET e == rel_extent(n.geom.ul_x, n.geom.ul_y, inner_extent(ig[1]))
              row_size == e[4] - e[2]
              col_size == e[3] - e[1]
              r == IF n.data = <<>> \/ ~ GeomWithin(n.geom, geom)
                   THEN load(ns, self, 0, <<e[2], e[1], row_size, col_size>>, dt, inplace)
                   ELSE LoadArray(ns, self, <<e[2], e[4] + 1, e[1], e[3] + 1>>, slices,
                                  band, dt, inplace)
          IN  IF GeomIntersects(ns[parent_root(ns, self)].geom, geom)
              THEN IF r.err \/ ~ applyMask THEN r
                   ELSE MaskStep(r, e, geom, ns, inplace)
              ELSE Outcome(ns, self, FALSE, <<>>, TRUE)

\* RasterData.load_by_pixel.
load_by_pixel(ns, self, row, col, row_size, col_size, slices, band, data_type, inplace) ==
    LET n  == ns[self]
        dt == IF data_type = "" THEN n.data_type ELSE data_type
        c  == crop_px_extent(n.geom, row, col, row + row_size - 1, col + col_size - 1)
    IN  IF n.data = <<>>
        THEN load(ns, self, 0, <<c[1], c[2], c[3] - c[1] + 1, c[4] - c[2] + 1>>, dt, inplace)
        ELSE LoadArray(ns, self, <<c[1], c[3] + 1, c[2], c[4] + 1>>, slices, band, dt,
                       inplace)

\* RasterLayer.data / RasterStack.data setter: the shape is taken from
\* convert_data_type(data, "numpy", band=label), whose one positional
\* argument after data is a coordinate argument.
SetData(ns, self, data) ==
    LET n    == ns[self]
        conv == convert_data_type(data, <<"numpy">>, "numpy", n.label)
        want == IF n.kind = "layer" THEN <<n.geom.n_rows, n.geom.n_cols>>
                ELSE <<Len(n.layer_ids), n.geom.n_rows, n.geom.n_cols>>
    IN  IF ~ CheckDataOk(n.kind, data) THEN Raised(ns, <<>>)
        ELSE IF conv = <<>> THEN Raised(ns, <<>>)
        ELSE IF Rank(conv[1]) # KindRank(n.kind) THEN Raised(ns, <<>>)
        ELSE IF conv[1].shape = want
        THEN Outcome([ns EXCEPT ![self].data = <<data>>], 0, FALSE, <<>>, FALSE)
        ELSE Outcome(ns, 0, FALSE, <<>>, TRUE)

\* RasterStack.crop: layer_ids is <<>> (None) or a list of labels; hasGeom is
\* FALSE for geom=None.
RECURSIVE IndexOf(_, _, _)
IndexOf(seq, x, k) == IF k > Len(seq) THEN 0
                      ELSE IF seq[k] = x THEN k ELSE IndexOf(seq, x, k + 1)

StackCrop(ns, self, hasGeom, geom, layer_ids, applyMask, inplace) ==
    LET n    == ns[self]
        idxs == [k \in 1..Len(layer_ids) |-> IndexOf(n.layer_ids, layer_ids[k], 1) - 1]
        layer_slice == IF layer_ids = <<>> THEN <<>> ELSE <<(<<"list", idxs>>)>>
    IN  IF \E k \in 1..Len(idxs) : idxs[k] < 0 THEN Raised(ns, <<>>)
        ELSE IF ~ hasGeom
        THEN LoadArray(ns, self, <<0, n.geom.n_rows, 0, n.geom.n_cols>>, layer_slice,
                       0, "", inplace)
        ELSE crop(ns, self, geom, layer_slice, applyMask, inplace)

\* raster_layer.load(data_type=data_type, inplace=True) on a layer object d
\* of a stack: the outcome on the arena that holds d alone.
DescriptorLoadBinding(d, data_type) ==
    Outcome(<<[d EXCEPT !.data = <<FileArray(2, 0, 0, d.geom.n_rows, d.geom.n_cols)>>]>>,
            0, FALSE, <<>>, FALSE)

DescriptorLoad(d, data_type) == load(<<d>>, 1, 0, <<>>, data_type, TRUE)

\* RasterStack.get_layer_data(layer_id, data_type=..): data is the returned
\* list, cls the class of the exception raised ("" for none).
get_layer_data(ns, self, layer_id, data_type) ==
    LET n   == ns[self]
        idx == IndexOf(n.layer_ids, layer_id, 1) - 1
    IN  IF idx < 0 THEN [o |-> Raised(ns, <<>>), cls |-> "ValueError", data |-> <<>>]
        ELSE IF n.data = <<>>
        THEN LET k  == n.raster_layers.refs[idx + 1]
                 ld == DescriptorLoad(n.raster_layers.objs[k], data_type)
                 ns1 == [ns EXCEPT ![self].raster_layers.objs[k] = ld.ns[1]]
                 d  == ld.ns[1]
                 conv == IF d.data = <<>> THEN <<>>
                         ELSE ConvertNodeData(d, d.data[1], d.data_type, <<>>)
             IN  IF ld.err
                 THEN [o |-> Raised(ns1, ld.reads), cls |-> "Exception", data |-> <<>>]
                 ELSE IF d.data # <<>> /\ conv = <<>>
                 THEN [o |-> Raised(ns1, ld.reads), cls |-> "Exception", data |-> <<>>]
                 ELSE [o |-> Outcome(ns1, 0, FALSE, ld.reads, FALSE), cls |-> "",
                       data |-> <<conv>>]
        ELSE LET r == LoadArray(ns, self, <<0, n.geom.n_rows, 0, n.geom.n_cols>>,
                                <<(<<"slice", idx, idx + 1>>)>>, 0, data_type, FALSE)
                 c == r.ns[r.ret]
                 conv == ConvertNodeData(c, c.data[1], c.data_type, <<>>)
             IN  IF r.err THEN [o |-> r, cls |-> "Exception", data |-> <<>>]
                 ELSE IF conv = <<>>
                 THEN [o |-> Raised(r.ns, <<>>), cls |-> "Exception", data |-> <<>>]
                 ELSE [o |-> Outcome(r.ns, 0, FALSE, <<>>, FALSE), cls |-> "",
                       data |-> <<conv>>]

\* RasterStack.__init__ on a series of layers: ids is the index of the series
\* (0, 1, .. for a list), geoms the layers' geometries.  The base geometry is
\* that of raster_layers[..][0], looked up by label 0; the layers must all
\* have it.  <<>> when the constructor raises, else <<node>>.
StackOfLayers(ids, geoms, data, data_type, io, label, parent) ==
    IF IndexOf(ids, 0, 1) = 0 THEN <<>>
    ELSE IF \E k \in 1..Len(geoms) : geoms[k] # geoms[IndexOf(ids, 0, 1)] THEN <<>>
    ELSE LET new == NewNode("stack", geoms[IndexOf(ids, 0, 1)], data, data_type, io,
                           label, parent, ids)
         IN  IF new = <<>> THEN <<>>
             ELSE <<[new[1] EXCEPT !.raster_layers =
                        [objs |-> [k \in 1..Len(ids) |-> LayerDescriptor(geoms[k])],
                         refs |-> [k \in 1..Len(ids) |-> k]]]>>

\* RasterStack.__getitem__, the layer part of stack[start:stop, .., ..]: -1 is
\* an open end (None).  list.index raises ValueError for a label that is not
\* in the index; the labels themselves, not their positions, are compared.
\* cls is the class of the exception raised ("" for none), ids the selection.
ItemLayerIds(all_layer_ids, start, stop) ==
    LET si == IndexOf(all_layer_ids, start, 1)
        ti == IndexOf(all_layer_ids, stop, 1)
    IN  IF start # -1 /\ si = 0 THEN [cls |-> "ValueError", ids |-> <<>>]
        ELSE IF stop # -1 /\ ti = 0 THEN [cls |-> "ValueError", ids |-> <<>>]
        ELSE IF start # -1 /\ stop # -1 /\ stop < start
        THEN [cls |-> "Exception", ids |-> <<>>]
        ELSE [cls |-> "",
              ids |-> SubSeq(all_layer_ids, IF start = -1 THEN 1 ELSE si,
                             IF stop = -1 THEN Len(all_layer_ids) ELSE ti)]

\* RasterStack.crop with a list of layer ids: as StackCrop, the list being
\* handed over even when it is empty.
StackCropLayers(ns, self, geom, layer_ids, inplace) ==
    LET n    == ns[self]
        idxs == [k \in 1..Len(layer_ids) |-> IndexOf(n.layer_ids, layer_ids[k], 1) - 1]
    IN  IF \E k \in 1..Len(idxs) : idxs[k] < 0 THEN Raised(ns, <<>>)
        ELSE crop(ns, self, geom, <<(<<"list", idxs>>)>>, FALSE, inplace)

\* RasterStack.__getitem__: geom is the geometry that self.raster_geom[..]
\* gives for the spatial part of the index.
getitem(ns, self, start, stop, geom) ==
    LET sel == ItemLayerIds(ns[self].layer_ids, start, stop)
    IN  IF sel.cls # "" THEN Raised(ns, <<>>)
        ELSE StackCropLayers(ns, self, geom, sel.ids, FALSE)

\* What a driver sees: it is opened for writing, written to, and closed.
Opened == <<"open">>
Written(array) == <<"write", array>>
Closed == <<"close">>

\* The record of a write: whether it raised, the class of the exception, and
\* what the driver saw, in order.
Wrote(err, cls, events) == [err |-> err, cls |-> cls, events |-> events]

\* RasterLayer.write(filepath, data=..) on node n: ext is the file extension
\* ("tif", "nc" or another), data is <<>> (None) or <<array>>.
layer_write(n, ext, data) ==
    LET data_type == IF ext = "tif" THEN "numpy" ELSE "xarray"
        d    == IF n.data = <<>> THEN data ELSE n.data
        conv == IF d = <<>> THEN <<>> ELSE ConvertNodeData(n, d[1], data_type, <<>>)
    IN  IF ~ (ext \in {"tif", "nc"}) THEN Wrote(TRUE, "IOError", <<>>)
        ELSE IF d # <<>> /\ ~ CheckDataOk("layer", d[1])
        THEN Wrote(TRUE, "Exception", <<Opened>>)
        ELSE IF conv = <<>> THEN Wrote(TRUE, "Exception", <<Opened>>)
        ELSE Wrote(FALSE, "", <<Opened, Written(conv[1]), Closed>>)

\* RasterStack.write_stack(filepath, layer_ids=..) on node n.
write_stack(n, layer_ids) ==
    LET conv == IF n.data = <<>> THEN <<>>
                ELSE ConvertNodeData(n, n.data[1], "numpy", <<>>)
    IN  IF layer_ids = <<>> THEN Wrote(TRUE, "KeyError", <<>>)
        ELSE IF \E k \in 1..Len(layer_ids[1]) : IndexOf(n.layer_ids, layer_ids[1][k], 1) = 0
        THEN Wrote(TRUE, "KeyError", <<>>)
        ELSE IF conv = <<>> THEN Wrote(TRUE, "Exception", <<Opened>>)
        ELSE Wrote(FALSE, "", <<Opened, Written(conv[1]), Closed>>)

\* One turn of the loop of write_layers, for the i-th filepath, after the
\* turns before it left the events ev: the layer's data is taken with
\* get_layer_data and handed to the layer's own write.
RECURSIVE LayersLoop(_, _, _, _, _)
LayersLoop(n, n_paths, ids, i, ev) ==
    IF i > n_paths THEN Wrote(FALSE, "", ev)
    ELSE IF i > Len(ids) THEN Wrote(TRUE, "IndexError", ev)
    ELSE IF IndexOf(n.layer_ids, ids[i], 1) = 0 THEN Wrote(TRUE, "IndexError", ev)
    ELSE IF n.data = <<>> THEN Wrote(TRUE, "Exception", ev)
    ELSE
      LET idx == IndexOf(n.layer_ids, ids[i], 1) - 1
          got == LoadArray(<<n>>, 1, <<0, n.geom.n_rows, 0, n.geom.n_cols>>,
                           <<(<<"slice", idx, idx + 1>>)>>, 0, n.data_type, FALSE)
          lay == [n EXCEPT !.kind = "layer", !.data = <<>>, !.io = 0, !.layer_ids = <<>>]
          w   == layer_write(lay, "tif", got.ns[got.ret].data)
      IN  IF got.err THEN Wrote(TRUE, "Exception", ev)
          ELSE IF w.err THEN Wrote(TRUE, w.cls, ev \o w.events)
          ELSE LayersLoop(n, n_paths, ids, i + 1, ev \o w.events)

\* A faulty write_layers without the comparison of the two counts.
write_layers_without_count_test(n, n_paths, layer_ids) ==
    IF layer_ids = <<>> THEN Wrote(TRUE, "TypeError", <<>>)
    ELSE LayersLoop(n, n_paths, layer_ids[1], 1, <<>>)

\* RasterStack.write_layers(filepaths, layer_ids=..) on node n: layer_ids is
\* <<>> (None, for which len() raises TypeError) or <<list>>.
write_layers(n, n_paths, layer_ids) ==
    IF layer_ids = <<>> THEN Wrote(TRUE, "TypeError", <<>>)
    ELSE IF n_paths # Len(layer_ids[1]) THEN Wrote(TRUE, "Exception", <<>>)
    ELSE LayersLoop(n, n_paths, layer_ids[1], 1, <<>>)

\* RasterStack.write(filepaths, layer_ids=.., stack=..) with n_paths filepaths.
stack_write(n, n_paths, layer_ids, stack) ==
    IF stack
    THEN IF n_paths > 1 THEN Wrote(TRUE, "Exception", <<>>)
         ELSE write_stack(n, layer_ids)
    ELSE write_layers(n, n_paths, layer_ids)

\* ----------------------------------------------------------- NetCdfWriter

\* Number of files of the file register, of tiles of the mosaic and of layers.
NFiles == 2

\* Number of NetCdfWriter.write calls.
MaxWrites == 3

Files == 1..NFiles
Tiles == 1..NFiles
LayerIds == 1..NFiles

\* The rows of the file register, grouped by 'filepath': the tile and the
\* layers of each file.  "tiles": one file per tile, each with the first
\* layer; "stacks": one file per tile, each with every layer; "layers": one
\* file per layer, all on the first tile.
RegisterKinds == {"tiles", "stacks", "layers"}
tile_id(reg, f) == IF reg = "layers" THEN 1 ELSE f
file_coords(reg, f) ==
    IF reg = "tiles" THEN {1} ELSE IF reg = "stacks" THEN LayerIds ELSE {f}

\* The writer after construction: the register has the columns 'filepath',
\* 'tile_id' and 'layer_id' and no column 'file_id' (has_col); file_id[f] is
\* the column's value in the rows of file f once the column exists, 0 for
\* NaN; files[k] is the file that the driver self._files[k] was opened on.
NewWriter(reg) ==
    [reg |-> reg, has_col |-> FALSE, file_id |-> [f \in Files |-> 0], files |-> <<>>]

\* The outcome of a write: the writer, whether and what it raised, the files
\* whose handle it looked up and the <<file, driver key, data>> written.
NcOutcome(w, err, cls, looked, written) ==
    [w |-> w, err |-> err, cls |-> cls, looked |-> looked, written |-> written]

\* file_group.iloc[0].get('file_id', None) on the frame the loop iterates:
\* None (-1) without the column, NaN (0) in a row the column's creation left
\* empty, else the key.
FileIdGet(w0, f) == IF ~ w0.has_col THEN -1 ELSE w0.file_id[f]

\* The handle part of one iteration of the loop of write, for file f.
NcHandle(w0, w, f) ==
    LET file_id == FileIdGet(w0, f)
        key == Len(w.files) + 1
    IN  IF file_id = -1
        THEN [w |-> [w EXCEPT !.has_col = TRUE, !.file_id[f] = key,
                              !.files = Append(w.files, f)],
              err |-> FALSE, key |-> key]
        ELSE IF file_id \in 1..Len(w.files)
        THEN [w |-> w, err |-> FALSE, key |-> file_id]
        ELSE [w |-> w, err |-> TRUE, key |-> 0]

\* The loop of NetCdfWriter.write over the files from f on: w0 is the
\* register the loop iterates (groupby's copy, taken when the loop starts),
\* w the writer, data the chunk's tiles and layers, dw the tiles and layers
\* left in data_write, which every iteration narrows.
RECURSIVE NcLoop(_, _, _, _, _, _, _, _)
NcLoop(w0, w, f, apply_tiling, data, dw, looked, written) ==
    IF f > NFiles THEN NcOutcome(w, FALSE, "", looked, written)
    ELSE
      LET t == tile_id(w.reg, f)
      IN  IF apply_tiling /\ t \notin data.tiles
          THEN NcLoop(w0, w, f + 1, apply_tiling, data, dw, looked, written)
          ELSE IF apply_tiling /\ t \notin dw.tiles
          THEN NcOutcome(w, TRUE, "KeyError", looked, written)
          ELSE IF ~ (file_coords(w.reg, f) \subseteq dw.layers)
          THEN NcOutcome(w, TRUE, "KeyError", looked, written)
          ELSE
            LET dw1 == [tiles |-> IF apply_tiling THEN {t} ELSE dw.tiles,
                        layers |-> file_coords(w.reg, f)]
                h == NcHandle(w0, w, f)
            IN  IF h.err
                THEN NcOutcome(h.w, TRUE, "KeyError", Append(looked, f), written)
                ELSE NcLoop(w0, h.w, f + 1, apply_tiling, data, dw1,
                            Append(looked, f), Append(written, <<f, h.key, dw1>>))

\* NetCdfWriter.write(data, apply_tiling=..).
nc_write(w, data, apply_tiling) ==
    NcLoop(w, w, 1, apply_tiling, data, data, <<>>, <<>>)

\* ----------------------------------------------------------- NetCdfReader

\* Rows and columns of a tile of the mosaic.
TileRows == 1
TileCols == 2

\* Number of NetCdfReader.read calls.
MaxReads == 2

\* The mosaic: two tiles side by side, tile t over the columns
\* (t - 1) * TileCols .. t * TileCols - 1 of the mosaic.
MosaicTiles == {1, 2}
y_coords == [r \in 1..TileRows |-> r - 1]
x_coords(t) == [c \in 1..TileCols |-> (t - 1) * TileCols + c - 1]

\* The data variables of the files and their encoding attributes in the
\* reference file.
DataVariables == <<"a", "b">>
nodatavals == [a |-> 9, b |-> 0]
scale_factors == [a |-> 2, b |-> 3]
offsets == [a |-> 1, b |-> 5]
dtypes == [a |-> "uint8", b |-> "int16"]

\* The raw value a tile's files hold for a variable at a pixel of the mosaic.
RawVal(t, var, y, x) == (IF var = "a" THEN 1 ELSE 5) + ((y + x) % 4)

\* The reader after construction on a mosaic whose tiles are listed in the
\* given order: the reference encoding is read from the first file.
NewReader(tiles) ==
    [tiles |-> tiles,
     ref_data_variables |-> DataVariables,
     ref_nodatavals |-> nodatavals,
     ref_scale_factors |-> nodatavals,
     ref_offsets |-> offsets,
     ref_dtypes |-> dtypes,
     data |-> <<>>, data_geom |-> <<>>]

\* The caller's decoder, applied to one value.
Decode(x, nodataval, scale_factor, offset) ==
    IF x = nodataval THEN x ELSE x * scale_factor + offset

\* The record of one decoder call.
DecoderCall(rd, t, var) ==
    [tile |-> t, data_variable |-> var,
     nodataval |-> rd.ref_nodatavals[var],
     scale_factor |-> rd.ref_scale_factors[var],
     offset |-> rd.ref_offsets[var],
     dtype |-> rd.ref_dtypes[var]]

\* RasterAccess(src_tile, dst_tile) for a tile of the mosaic and the mosaic's
\* extent as target: the rows and columns of the tile that lie in the
\* target, which are all of them.
src_row_slice == 1..TileRows
src_col_slice == 1..TileCols

\* __load_data_per_data_variable: the window of one variable of a tile's
\* files, decoded when a decoder is given.
load_data_per_data_variable(rd, t, var, decoder) ==
    [p \in {<<y_coords[r], x_coords(t)[c]>> : r \in src_row_slice, c \in src_col_slice} |->
        LET raw == RawVal(t, var, p[1], p[2])
            call == DecoderCall(rd, t, var)
        IN  IF decoder
            THEN Decode(raw, call.nodataval, call.scale_factor, call.offset)
            ELSE raw]

\* __load_data_per_tile_netcdf4 / __load_data_per_tile_xarray: the dataset
\* of one tile, labelled with the tile's coordinates.
load_data_per_tile(rd, t, data_variables, decoder) ==
    [ys |-> y_coords, xs |-> x_coords(t),
     v |-> [var \in {data_variables[i] : i \in 1..Len(data_variables)} |->
              load_data_per_data_variable(rd, t, var, decoder)]]

\* Used in place of combine_by_coords: the datasets are put side by side in
\* the order of the list.
combine_nested(parts) ==
    [err |-> FALSE,
     ds |-> [ys |-> parts[1].ys,
             xs |-> parts[1].xs \o parts[2].xs,
             v |-> [var \in DOMAIN parts[1].v |->
                      [p \in DOMAIN parts[1].v[var] \cup DOMAIN parts[2].v[var] |->
                          IF p \in DOMAIN parts[1].v[var] THEN parts[1].v[var][p]
                          ELSE parts[2].v[var][p]]]]]

\* xr.combine_by_coords on the datasets of two tiles: they are ordered by
\* their coordinates and concatenated; coordinates that interleave or repeat
\* are an error.
combine_by_coords(parts) ==
    LET lo == IF parts[1].xs[1] <= parts[2].xs[1] THEN 1 ELSE 2
        a == parts[lo]
        b == parts[3 - lo]
    IN  IF a.xs[Len(a.xs)] >= b.xs[1]
        THEN [err |-> TRUE, ds |-> <<>>]
        ELSE [err |-> FALSE,
              ds |-> [ys |-> a.ys,
                      xs |-> a.xs \o b.xs,
                      v |-> [var \in DOMAIN a.v |->
                               [p \in DOMAIN a.v[var] \cup DOMAIN b.v[var] |->
                                   IF p \in DOMAIN a.v[var] THEN a.v[var][p]
                                   ELSE b.v[var][p]]]]]

\* The outcome of a read: the reader, whether and what it raised, and the
\* decoder calls made.
ReadOutcome(rd, err, cls, decoded) ==
    [rd |-> rd, err |-> err, cls |-> cls, decoded |-> decoded]

\* The list comprehension over self._mosaic.tiles from position i on: bad
\* are the tiles whose files cannot be opened.
RECURSIVE TilesLoop(_, _, _, _, _, _, _)
TilesLoop(rd, i, data_variables, decoder, bad, parts, decoded) ==
    IF i > Len(rd.tiles) THEN [err |-> FALSE, parts |-> parts, decoded |-> decoded]
    ELSE IF rd.tiles[i] \in bad THEN [err |-> TRUE, parts |-> parts, decoded |-> decoded]
    ELSE TilesLoop(rd, i + 1, data_variables, decoder, bad,
                   Append(parts, load_data_per_tile(rd, rd.tiles[i], data_variables, decoder)),
                   IF decoder
                   THEN decoded \o [k \in 1..Len(data_variables) |->
                                      DecoderCall(rd, rd.tiles[i], data_variables[k])]
                   ELSE decoded)

\* NetCdfReader.read(data_variables=.., engine=.., decoder=..); an empty
\* data_variables stands for None.
nc_read(rd, data_variables, engine, decoder, bad) ==
    IF engine \notin {"netcdf4", "xarray"}
    THEN ReadOutcome(rd, TRUE, "ValueError", <<>>)
    ELSE
      LET dvs == IF data_variables = <<>> THEN rd.ref_data_variables ELSE data_variables
          loaded == TilesLoop(rd, 1, dvs, decoder, bad, <<>>, <<>>)
      IN  IF loaded.err THEN ReadOutcome(rd, TRUE, "OSError", loaded.decoded)
          ELSE
            LET data == combine_by_coords(loaded.parts)
            IN  IF data.err THEN ReadOutcome(rd, TRUE, "ValueError", loaded.decoded)
                ELSE ReadOutcome([rd EXCEPT !.data = <<data.ds>>,
                                            !.data_geom = <<[ys |-> data.ds.ys, xs |-> data.ds.xs]>>],
                                 FALSE, "", loaded.decoded)

\* ---------------------------------------------------------- GeoTiffDriver

\* Rows and columns of the larger of the arrays written to a GeoTIFF file.
TifRows == 2
TifCols == 2

\* Number of calls made on GeoTIFF drivers, their construction included.
MaxTifCalls == 4

\* gdalport.NUMPY_TO_GDAL_DTYPE and gdalport.GDAL_TO_NUMPY_DTYPE, for the
\* data types used here.
NUMPY_TO_GDAL_DTYPE == [uint8 |-> "Byte", int8 |-> "Byte", int16 |-> "Int16"]
GDAL_TO_NUMPY_DTYPE == [Byte |-> "uint8", Int16 |-> "int16"]

\* The encoding attributes a driver is constructed with for its band, other
\* than the defaults.
TifEncoding == [nodataval |-> 9, scale_factor |-> 2, offset |-> 1]

\* The value that stands for NaN in decoded data.
NaN == -1

\* No driver constructed and no file at the path; inst counts the drivers
\* constructed, gen the files created at the path.
NoDriver == [drv |-> <<>>, file |-> <<>>, inst |-> 0, gen |-> 0]

\* The outcome of a driver call: the driver and file afterwards, whether and
\* what it raised, the data returned and the encoder / decoder calls made.
TifOutcome(g, err, cls, ret, coded) ==
    [g |-> g, err |-> err, cls |-> cls, ret |-> ret, coded |-> coded]

\* GeoTiffDriver._open on driver d with the file state of g: the driver and
\* the file afterwards.
tif_open(g, d) ==
    IF d.mode = "r"
    THEN IF g.file = <<>> THEN [g |-> g, d |-> d, err |-> TRUE, cls |-> "FileNotFoundError"]
         ELSE [g |-> g,
               d |-> [d EXCEPT !.src = TRUE, !.shape = <<g.file[1].shape>>,
                               !.dtype = g.file[1].dtype,
                               !.scale_factor =
                                  IF g.file[1].scale = <<>> \/ g.file[1].scale = <<0>>
                                  THEN 1 ELSE g.file[1].scale[1],
                               !.offset =
                                  IF g.file[1].offset = <<>> THEN 0
                                  ELSE g.file[1].offset[1],
                               !.nodataval = g.file[1].nodataval],
               err |-> FALSE, cls |-> ""]
    ELSE IF g.file # <<>> /\ ~ d.overwrite
    THEN [g |-> g, d |-> d, err |-> TRUE, cls |-> "FileExistsError"]
    ELSE [g |-> [g EXCEPT !.gen = g.gen + 1,
                          !.file = <<[shape |-> d.shape[1],
                                      dtype |-> NUMPY_TO_GDAL_DTYPE[GDAL_TO_NUMPY_DTYPE[d.dtype]],
                                      v |-> [p \in Idx(d.shape[1]) |-> d.nodataval[1]],
                                      nodataval |-> <<>>, scale |-> <<>>, offset |-> <<>>,
                                      by |-> g.inst, gen |-> g.gen + 1]>>],
          d |-> [d EXCEPT !.src = TRUE],
          err |-> FALSE, cls |-> ""]

\* GeoTiffDriver(filepath, mode=.., shape=.., overwrite=.., dtypes=(dtype,),
\* auto_decode=..) with the encoding TifEncoding; shape <<>> is None.  g.inst
\* is already the number of the new driver.
tif_init(g, mode, shape, overwrite, dtype, auto_decode) ==
    LET d == [mode |-> mode, shape |-> shape, src |-> FALSE, overwrite |-> overwrite,
              auto_decode |-> auto_decode, dtype |-> NUMPY_TO_GDAL_DTYPE[dtype],
              nodataval |-> <<TifEncoding.nodataval>>,
              scale_factor |-> TifEncoding.scale_factor,
              offset |-> TifEncoding.offset, inst |-> g.inst]
        o == tif_open(g, d)
    IN  IF shape # <<>> \/ mode = "r"
        THEN IF o.err THEN TifOutcome(g, TRUE, o.cls, <<>>, <<>>)
             ELSE TifOutcome([o.g EXCEPT !.drv = <<o.d>>], FALSE, "", <<>>, <<>>)
        ELSE TifOutcome([g EXCEPT !.drv = <<d>>], FALSE, "", <<>>, <<>>)

\* GDAL_TO_NUMPY_DTYPE(self._dtypes[band]): the table is a dict, and calling
\* a dict raises TypeError.
dtype_of_band(d) == [err |-> TRUE, cls |-> "TypeError", dtype |-> ""]

\* The record of one encoder or decoder call.
CoderCall(d, dtype) ==
    [nodataval |-> d.nodataval, scale_factor |-> d.scale_factor,
     offset |-> d.offset, dtype |-> dtype]

\* Whether the window of the given shape at (row, col) lies in the file.
TifWindowFits(f, row, col, shape) ==
    /\ row >= 0 /\ col >= 0
    /\ row + shape[1] <= f.shape[1] /\ col + shape[2] <= f.shape[2]

\* GeoTiffDriver.write(data, row=.., col=.., encoder=..) on the driver of g:
\* data has data.layers layers of data.shape pixels; the caller's encoder
\* is the identity.
tif_write(g, data, row, col, encoder) ==
    LET d0 == g.drv[1]
        o  == IF d0.src THEN [g |-> g, d |-> d0, err |-> FALSE, cls |-> ""]
              ELSE tif_open(g, [d0 EXCEPT !.shape = <<data.shape>>])
        g1 == [o.g EXCEPT !.drv = <<o.d>>]
        dt == dtype_of_band(o.d)
        f  == g1.file[1]
    IN  IF d0.mode # "w" THEN TifOutcome(g, TRUE, "IOError", <<>>, <<>>)
        ELSE IF o.err
        THEN TifOutcome([g EXCEPT !.drv = <<[d0 EXCEPT !.shape = <<data.shape>>]>>],
                        TRUE, o.cls, <<>>, <<>>)
        ELSE IF data.layers # 1 THEN TifOutcome(g1, TRUE, "ValueError", <<>>, <<>>)
        ELSE IF encoder /\ dt.err THEN TifOutcome(g1, TRUE, dt.cls, <<>>, <<>>)
        ELSE IF ~ TifWindowFits(f, row, col, data.shape)
        THEN TifOutcome(g1, TRUE, "ValueError",
                        <<>>, IF encoder THEN <<CoderCall(o.d, dt.dtype)>> ELSE <<>>)
        ELSE TifOutcome(
               [g1 EXCEPT !.file =
                  <<[f EXCEPT !.v = [p \in DOMAIN f.v |->
                                       IF /\ p[1] - row \in 0..(data.shape[1] - 1)
                                          /\ p[2] - col \in 0..(data.shape[2] - 1)
                                       THEN data.v[<<p[1] - row, p[2] - col>>]
                                       ELSE f.v[p]],
                               !.nodataval = o.d.nodataval,
                               !.scale = <<o.d.scale_factor>>,
                               !.offset = <<o.d.offset>>]>>],
               FALSE, "", <<>>,
               IF encoder THEN <<CoderCall(o.d, dt.dtype)>> ELSE <<>>)

\* GeoTiffDriver.read(row=.., col=.., n_rows=.., n_cols=.., decoder=..) on
\* the driver of g, for a window <<row, col, n_rows, n_cols>> or <<>> (the
\* whole raster); the caller's decoder is the identity.
tif_read(g, win, decoder) ==
    LET d  == g.drv[1]
        f  == g.file[1]
        w  == IF win = <<>> THEN <<0, 0, d.shape[1][1], d.shape[1][2]>> ELSE win
        dt == dtype_of_band(d)
        raw == [p \in Idx(<<w[3], w[4]>>) |-> f.v[<<w[1] + p[1], w[2] + p[2]>>]]
    IN  IF ~ d.src THEN TifOutcome(g, TRUE, "AttributeError", <<>>, <<>>)
        ELSE IF d.auto_decode
        THEN TifOutcome(g, FALSE, "",
                        <<[p \in DOMAIN raw |->
                             IF <<raw[p]>> = d.nodataval THEN NaN
                             ELSE raw[p] * d.scale_factor + d.offset]>>, <<>>)
        ELSE IF decoder /\ dt.err THEN TifOutcome(g, TRUE, dt.cls, <<>>, <<>>)
        ELSE TifOutcome(g, FALSE, "", <<raw>>,
                        IF decoder THEN <<CoderCall(d, dt.dtype)>> ELSE <<>>)

\* GeoTiffDriver.flush and GeoTiffDriver.close.
tif_flush(g) == TifOutcome(g, FALSE, "", <<>>, <<>>)
tif_close(g) == TifOutcome([g EXCEPT !.drv[1].src = FALSE], FALSE, "", <<>>, <<>>)

\* ------------------------------------------------------------------- state

VARIABLES
    nodes,  \* the arena: every RasterLayer / RasterStack object created so far
    last,   \* the last call: its name, receiver, arguments and outcome
    calls,  \* number of method calls made so far
    writer, \* the NetCdfWriter: its file register and its open drivers
    reader, \* the NetCdfReader: its mosaic, reference encoding and data
    gt      \* the GeoTiffDriver the caller holds and the file at its path

vars == <<nodes, last, calls, writer, reader, gt>>

Kinds == {"layer", "stack"}
DataTypes == {"numpy", "xarray"}
Labels == {0, 1}

\* Array shapes a caller may hand over for a kind: the file's own shape and
\* one with a row and a column less.
Shapes(kind) ==
    IF kind = "layer" THEN {<<FileRows, FileCols>>, <<FileRows - 1, FileCols - 1>>}
    ELSE {<<FileLayers, FileRows, FileCols>>, <<FileLayers, FileRows - 1, FileCols - 1>>}

\* A caller's dense array of a shape: the upper-left part of the file's data.
ArrayOf(shape) ==
    [rep |-> "numpy", var |-> 0, shape |-> shape,
     v |-> [i \in Idx(shape) |->
              IF Len(shape) = 2 THEN FileVal(0, i[1], i[2])
              ELSE FileVal(i[1], i[2], i[3])],
     m |-> <<>>]

\* Geometries a caller may crop or load by: the file's first pixel, its first
\* two columns, the pixel (1, 1), a 2 x 2 block that starts at pixel (1, 1)
\* and reaches over the file's lower edge, and the pixel right of the file's
\* first row (outside the file).
Geoms == {Geom(1, 1, 0, WorldTop), Geom(FileRows, 2, 0, WorldTop),
          Geom(1, 1, 1, WorldTop - 1), Geom(FileRows, 2, 1, WorldTop - 1),
          Geom(1, 1, FileCols, WorldTop)}

\* Points a caller may load by, in doubled world coordinates: the centres of
\* the file's pixels (1, 1), (0, 2) and (1, 0) and of the pixel right of its
\* first row (outside the file).
Points == {<<2 * p[2] + 1, 2 * WorldTop - (2 * p[1] + 1)>> :
             p \in {<<1, 1>>, <<0, 2>>, <<1, 0>>, <<0, FileCols>>}}

\* Pixel windows <<row, col, row_size, col_size>> a caller may load by: inside
\* the file, and reaching over its upper-left and lower-right corners.
Windows == {<<0, 0, 1, 1>>, <<1, 0, 1, 1>>, <<0, 1, 2, 2>>, <<-1, -1, 2, 2>>,
            <<FileRows - 1, FileCols - 1, 2, 2>>}

\* A mask of the given shape that masks its first element only.
MaskOf(shape) ==
    [rep |-> "numpy", var |-> 0, shape |-> shape,
     v |-> [i \in Idx(shape) |-> \A k \in 1..Len(shape) : i[k] = 0],
     m |-> <<>>]

NoCall == [op |-> "init", self |-> 0, inplace |-> FALSE, mask |-> FALSE, pre |-> <<>>,
           arg |-> <<>>, ret |-> 0, err |-> FALSE, reads |-> <<>>, warn |-> FALSE]

\* The record of a call on nodes[self] with argument arg (a geometry, a
\* point, a pixel window or an array) and outcome r; pre is the arena the
\* call was made on.
Call(op, self, inplace, mask, arg, r) ==
    [op |-> op, self |-> self, inplace |-> inplace, mask |-> mask, pre |-> nodes,
     arg |-> arg, ret |-> r.ret, err |-> r.err, reads |-> r.reads, warn |-> r.warn]

\* A constructor call: the new node, if any, is the arena's first.
Build(op, arg, new) ==
    /\ nodes' = new
    /\ last' = Call(op, 0, FALSE, FALSE, arg, Outcome(new, Len(new), new = <<>>, <<>>, FALSE))
    /\ UNCHANGED <<calls, writer, reader, gt>>

\* A method call on a node of the arena.
Do(op, self, inplace, mask, arg, r) ==
    /\ calls < MaxCalls
    /\ calls' = calls + 1
    /\ nodes' = r.ns
    /\ last' = Call(op, self, inplace, mask, arg, r)
    /\ UNCHANGED <<writer, reader, gt>>

Init ==
    /\ nodes = <<>> /\ last = NoCall /\ calls = 0
    /\ writer = NewWriter("tiles") /\ reader = NewReader(<<1, 2>>)
    /\ gt = NoDriver

\* RasterLayer(n_rows, n_cols, sref, geotrans, data=..) and
\* RasterStack(raster_layers, data=..) called directly: the geometry is the
\* file's, the data any array or None.
Construct ==
    /\ nodes = <<>>
    /\ \E kind \in Kinds, dt \in DataTypes, label \in Labels :
          \E data \in {<<>>} \cup {<<ArrayOf(shp)>> : shp \in Shapes("layer") \cup Shapes("stack")} :
             LET ids == [k \in 1..FileLayers |-> k - 1]
             IN  Build("construct", data,
                       IF kind = "layer"
                       THEN NewNode("layer", FileGeom, data, dt, 0, label, 0, <<>>)
                       ELSE NewStack(FileGeom, data, dt, 0, label, 0, ids))

\* cls.from_array(sref, geotrans, data, data_type=.., label=..).
FromArray ==
    /\ nodes = <<>>
    /\ \E kind \in Kinds, dt \in DataTypes, label \in Labels :
          \E shp \in Shapes("layer") \cup Shapes("stack") :
             Build("from_array", <<ArrayOf(shp)>>,
                   from_array(kind, 0, WorldTop, ArrayOf(shp), dt, 0, label, 0))

\* cls.from_io(io, read=.., data_type=.., label=..).
FromIo ==
    /\ nodes = <<>>
    /\ \E kind \in Kinds, dt \in DataTypes, label \in Labels, read \in BOOLEAN :
          LET ids  == [k \in 1..FileLayers |-> k - 1]
              data == DriverRead(KindRank(kind), <<>>)
          IN  Build("from_io", <<>>,
                    IF read
                    THEN from_array(kind, 0, WorldTop, data[1], dt, 1, label, 0)
                    ELSE IF kind = "layer"
                    THEN NewNode("layer", FileGeom, <<>>, dt, 1, label, 0, <<>>)
                    ELSE NewStack(FileGeom, <<>>, dt, 1, label, 0, ids))

Receivers == 1..Len(nodes)

\* data_type arguments: None (the node's own data_type) or "numpy".
TypeArgs == {"", "numpy"}

Load ==
    \E self \in Receivers, dt \in TypeArgs, inplace \in BOOLEAN :
       Do("load", self, inplace, FALSE, <<>>, load(nodes, self, 0, <<>>, dt, inplace))

LoadByCoords ==
    \E self \in Receivers, pt \in Points, inplace \in BOOLEAN :
       Do("load_by_coords", self, inplace, FALSE, pt,
          load_by_coords(nodes, self, pt[1], pt[2], <<>>, 0, "", inplace))

LoadByGeom ==
    \E self \in Receivers, geom \in Geoms, mask \in BOOLEAN, inplace \in BOOLEAN :
       Do("load_by_geom", self, inplace, mask, geom,
          load_by_geom(nodes, self, geom, <<>>, 0, "", mask, inplace))

LoadByPixel ==
    \E self \in Receivers, w \in Windows, inplace \in BOOLEAN :
       Do("load_by_pixel", self, inplace, FALSE, w,
          load_by_pixel(nodes, self, w[1], w[2], w[3], w[4], <<>>, 0, "", inplace))

\* crop on a layer (RasterData.crop) or on a stack (RasterStack.crop with
\* layer_ids None).
Crop ==
    \E self \in Receivers, geom \in Geoms, mask \in BOOLEAN, inplace \in BOOLEAN :
       Do("crop", self, inplace, mask, geom,
          IF nodes[self].kind = "layer"
          THEN crop(nodes, self, geom, <<>>, mask, inplace)
          ELSE StackCrop(nodes, self, TRUE, geom, <<>>, mask, inplace))

\* apply_mask with a mask of the node's pixel shape or of its data's shape, on
\* the node's own data or on a one-pixel array handed over.
ApplyMask ==
    \E self \in Receivers, inplace \in BOOLEAN :
       \E shp \in {<<nodes[self].geom.n_rows, nodes[self].geom.n_cols>>}
                  \cup {nodes[self].data[k].shape : k \in 1..Len(nodes[self].data)} :
       \E data \in {<<>>, <<ArrayOf([k \in 1..KindRank(nodes[self].kind) |-> 1])>>} :
          Do("apply_mask", self, inplace, FALSE, data,
             apply_mask(nodes, self, MaskOf(shp), data, 0, inplace))

\* node.data = array, with an array of the node's own shape.
SetDataCall ==
    \E self \in Receivers :
       LET g   == nodes[self].geom
           shp == IF nodes[self].kind = "layer" THEN <<g.n_rows, g.n_cols>>
                  ELSE <<Len(nodes[self].layer_ids), g.n_rows, g.n_cols>>
       IN  Do("set_data", self, TRUE, FALSE, <<ArrayOf(shp)>>,
              SetData(nodes, self, ArrayOf(shp)))

Next ==
    \/ Construct
    \/ FromArray
    \/ FromIo
    \/ Load
    \/ LoadByCoords
    \/ LoadByGeom
    \/ LoadByPixel
    \/ Crop
    \/ ApplyMask
    \/ SetDataCall

Spec == Init /\ [][Next]_vars

\* ---------------------------------------------- stacks: layers, index, write

\* Indexes of the series of layers a stack is built from.
LabelSeries == {<<0, 1, 2>>, <<1, 2, 3>>, <<0, 2, 1>>}

\* Labels a caller may index or select by; -1 stands for an open end.
ItemLabels == 0..3

\* A method call that reports the class of its exception and what the driver
\* saw, besides its outcome.
DoLogged(op, self, arg, r, cls, events) ==
    /\ calls < MaxCalls
    /\ calls' = calls + 1
    /\ nodes' = r.ns
    /\ last' = Call(op, self, FALSE, FALSE, arg, r) @@ [cls |-> cls, events |-> events]
    /\ UNCHANGED <<writer, reader, gt>>

\* RasterStack(raster_layers, data=.., io=..): odd is the position of a layer
\* whose geometry differs from the others (0 for none).
StackFromLayers ==
    /\ nodes = <<>>
    /\ \E ids \in LabelSeries, odd \in 0..2, bound \in BOOLEAN, io \in {0, 1} :
          LET geoms == [k \in 1..Len(ids) |->
                           IF k = odd THEN Geom(FileRows, FileCols - 1, 0, WorldTop)
                           ELSE FileGeom]
              data  == IF bound THEN <<ArrayOf(<<Len(ids), FileRows, FileCols>>)>> ELSE <<>>
          IN  Build("stack_of_layers", [ids |-> ids, geoms |-> geoms],
                    StackOfLayers(ids, geoms, data, "numpy", io, 0, 0))

\* stack[start:stop, .., ..] with the spatial part selecting the whole raster.
GetItem ==
    \E self \in Receivers, start \in ItemLabels \cup {-1}, stop \in ItemLabels \cup {-1} :
       /\ nodes[self].kind = "stack"
       /\ LET r == getitem(nodes, self, start, stop, nodes[self].geom)
              c == ItemLayerIds(nodes[self].layer_ids, start, stop).cls
          IN  DoLogged("getitem", self, <<start, stop>>, r,
                       IF c # "" THEN c ELSE IF r.err THEN "Exception" ELSE "", <<>>)

\* stack.write(filepaths, layer_ids=.., stack=..).
StackWrite ==
    \E self \in Receivers, n_paths \in 1..2, stack \in BOOLEAN :
    \E layer_ids \in {<<>>, <<(<<0>>)>>, <<(<<0, 1>>)>>, <<(<<0, 3>>)>>} :
       /\ nodes[self].kind = "stack"
       /\ LET w == stack_write(nodes[self], n_paths, layer_ids, stack)
          IN  DoLogged("stack_write", self,
                       [n_paths |-> n_paths, layer_ids |-> layer_ids, stack |-> stack],
                       Outcome(nodes, 0, w.err, <<>>, FALSE), w.cls, w.events)

\* layer.write(filepath, data=..).
LayerWrite ==
    \E self \in Receivers, ext \in {"tif", "nc", "txt"} :
    \E data \in {<<>>, <<ArrayOf(<<1, 1>>)>>} :
       /\ nodes[self].kind = "layer"
       /\ LET w == layer_write(nodes[self], ext, data)
          IN  DoLogged("layer_write", self, [ext |-> ext, data |-> data],
                       Outcome(nodes, 0, w.err, <<>>, FALSE), w.cls, w.events)

\* stack.crop(geom, layer_ids=<all labels>, apply_mask=..).
CropLayers ==
    \E self \in Receivers, geom \in Geoms, mask \in BOOLEAN :
       /\ nodes[self].kind = "stack"
       /\ Do("crop", self, FALSE, mask, geom,
             StackCrop(nodes, self, TRUE, geom, nodes[self].layer_ids, mask, FALSE))

StackNext ==
    \/ Construct
    \/ CropLayers
    \/ StackFromLayers
    \/ GetItem
    \/ StackWrite
    \/ LayerWrite

StackSpec == Init /\ [][StackNext]_vars

\* ------------------------------------------------------------ the writer

\* Data chunks a caller may write: any tiles and layers the chunk covers.
Chunks == {[tiles |-> ts, layers |-> ls] :
             ts \in SUBSET Tiles \ {{}}, ls \in SUBSET LayerIds \ {{}}}

WriterInit ==
    /\ nodes = <<>> /\ last = NoCall /\ calls = 0
    /\ writer \in {NewWriter(reg) : reg \in RegisterKinds}
    /\ reader = NewReader(<<1, 2>>)
    /\ gt = NoDriver

\* writer.write(data, apply_tiling=..).
NcWrite ==
    /\ calls < MaxWrites
    /\ \E data \in Chunks, apply_tiling \in BOOLEAN :
          LET r == nc_write(writer, data, apply_tiling)
          IN  /\ calls' = calls + 1
              /\ writer' = r.w
              /\ last' = [op |-> "nc_write", self |-> 0, inplace |-> FALSE,
                          mask |-> apply_tiling, pre |-> writer, arg |-> data,
                          ret |-> 0, err |-> r.err, reads |-> <<>>, warn |-> FALSE,
                          cls |-> r.cls, looked |-> r.looked, written |-> r.written]
              /\ UNCHANGED <<nodes, reader, gt>>

WriterSpec == WriterInit /\ [][NcWrite]_vars

\* ----------------------------------------------------- the GeoTIFF driver

\* Arrays a caller may write: one or two layers of one pixel or of the
\* larger shape, with values that tell the writes apart.
TifArrays ==
    {[layers |-> n, shape |-> shp, v |-> [p \in Idx(shp) |-> base + p[1] * shp[2] + p[2]]] :
        n \in 1..2, shp \in {<<1, 1>>, <<TifRows, TifCols>>}, base \in {1, 5}}

\* The record of a call on the driver: pre is the driver and the file
\* before the call.
TifCall(op, arg, r) ==
    /\ calls' = calls + 1
    /\ gt' = r.g
    /\ last' = [op |-> op, self |-> 0, inplace |-> FALSE, mask |-> FALSE, pre |-> gt,
                arg |-> arg, ret |-> r.ret, err |-> r.err, reads |-> <<>>,
                warn |-> FALSE, cls |-> r.cls, coded |-> r.coded]
    /\ UNCHANGED <<nodes, writer, reader>>

\* drv = GeoTiffDriver(path, mode=.., shape=.., overwrite=.., ..): when the
\* constructor raises, the caller keeps the driver it had.
TifInit ==
    /\ calls < MaxTifCalls
    /\ \E mode \in {"r", "w"}, shape \in {<<>>, <<(<<TifRows, TifCols>>)>>},
          overwrite \in BOOLEAN, dtype \in {"uint8", "int8"}, auto_decode \in BOOLEAN :
          TifCall("tif_init",
                  [mode |-> mode, shape |-> shape, overwrite |-> overwrite,
                   dtype |-> dtype, auto_decode |-> auto_decode],
                  tif_init([gt EXCEPT !.inst = gt.inst + 1], mode, shape, overwrite,
                           dtype, auto_decode))

\* drv.write(data, row=.., col=.., encoder=..).
TifWrite ==
    /\ calls < MaxTifCalls
    /\ gt.drv # <<>>
    /\ \E data \in TifArrays, off \in {0, 1}, encoder \in BOOLEAN :
          TifCall("tif_write",
                  [data |-> data, row |-> off, col |-> off, encoder |-> encoder],
                  tif_write(gt, data, off, off, encoder))

\* drv.read(.., decoder=..) of the whole raster or of its first pixel.
TifRead ==
    /\ calls < MaxTifCalls
    /\ gt.drv # <<>> /\ gt.file # <<>>
    /\ gt.drv[1].src => gt.drv[1].shape = <<gt.file[1].shape>>
    /\ \E win \in {<<>>, <<0, 0, 1, 1>>}, decoder \in BOOLEAN :
          TifCall("tif_read", [win |-> win, decoder |-> decoder],
                  tif_read(gt, win, decoder))

TifFlush ==
    /\ calls < MaxTifCalls
    /\ gt.drv # <<>>
    /\ TifCall("tif_flush", <<>>, tif_flush(gt))

TifClose ==
    /\ calls < MaxTifCalls
    /\ gt.drv # <<>>
    /\ TifCall("tif_close", <<>>, tif_close(gt))

TifNext == TifInit \/ TifWrite \/ TifRead \/ TifFlush \/ TifClose

TifSpec == Init /\ [][TifNext]_vars

\* ------------------------------------------------------- layers' data

\* stack.get_layer_data(layer_id, data_type=..).
GetLayerData ==
    \E self \in Receivers, layer_id \in ItemLabels, dt \in DataTypes :
       /\ nodes[self].kind = "stack"
       /\ LET r == get_layer_data(nodes, self, layer_id, dt)
          IN  DoLogged("get_layer_data", self, layer_id, r.o, r.cls, r.data)

LayerDataNext == FromArray \/ FromIo \/ GetLayerData

LayerDataSpec == Init /\ [][LayerDataNext]_vars

\* ------------------------------------------------------- the conversion

\* Values a caller may convert: dense arrays of two and three axes, the
\* labelled datasets of them and the tables of them.
Convertibles ==
    LET dense == {ArrayOf(shp) : shp \in {<<FileRows, FileCols>>,
                                          <<FileLayers, FileRows, FileCols>>}}
    IN  dense \cup {[a EXCEPT !.rep = "xarray", !.var = 1] : a \in dense}
              \cup {[a EXCEPT !.rep = "dataframe", !.var = 1] : a \in dense}

\* Lengths of the coordinate arguments a caller may pass: two, three or four
\* axes, fitting the file's shape or one too long.
CoordArgs ==
    {<<FileRows, FileCols>>, <<FileLayers, FileRows, FileCols>>,
     <<FileLayers, FileRows, FileCols + 1>>, <<FileRows, FileCols, FileLayers>>,
     <<1, FileLayers, FileRows, FileCols>>}

\* convert_data_type(data, *coord_args, data_type=.., band=..).
Convert ==
    /\ calls < MaxCalls
    /\ \E data \in Convertibles, coords \in CoordArgs, band \in {0, 1},
          data_type \in {"numpy", "xarray", "dataframe", "list"} :
          /\ calls' = calls + 1
          /\ last' = [op |-> "convert", self |-> 0, inplace |-> FALSE, mask |-> FALSE,
                      pre |-> <<>>,
                      arg |-> [data |-> data, coords |-> coords, data_type |-> data_type,
                               band |-> band],
                      ret |-> convert_data_type(data, coords, data_type, band),
                      err |-> convert_data_type(data, coords, data_type, band) = <<>>,
                      reads |-> <<>>, warn |-> FALSE]
          /\ UNCHANGED <<nodes, writer, reader, gt>>

ConvertSpec == Init /\ [][Convert]_vars

\* ------------------------------------------------------------ the reader

ReaderInit ==
    /\ nodes = <<>> /\ last = NoCall /\ calls = 0
    /\ writer = NewWriter("tiles")
    /\ reader \in {NewReader(<<1, 2>>), NewReader(<<2, 1>>)}
    /\ gt = NoDriver

\* reader.read(data_variables=.., engine=.., decoder=..), with any of the
\* tiles' files unreadable.
NcRead ==
    /\ calls < MaxReads
    /\ \E data_variables \in {<<>>, <<"a">>, <<"b">>, <<"b", "a">>},
          engine \in {"netcdf4", "xarray", "h5netcdf"},
          decoder \in BOOLEAN, bad \in SUBSET MosaicTiles :
          LET r == nc_read(reader, data_variables, engine, decoder, bad)
          IN  /\ calls' = calls + 1
              /\ reader' = r.rd
              /\ last' = [op |-> "nc_read", self |-> 0, inplace |-> FALSE,
                          mask |-> decoder, pre |-> reader,
                          arg |-> [data_variables |-> data_variables, engine |-> engine,
                                   bad |-> bad],
                          ret |-> 0, err |-> r.err, reads |-> <<>>, warn |-> FALSE,
                          cls |-> r.cls, decoded |-> r.decoded]
              /\ UNCHANGED <<nodes, writer, gt>>

ReaderSpec == ReaderInit /\ [][NcRead]_vars

\* ------------------------------------------------- the reader and writer

MosaicInit ==
    /\ nodes = <<>> /\ last = NoCall /\ calls = 0
    /\ writer \in {NewWriter(reg) : reg \in RegisterKinds}
    /\ reader \in {NewReader(<<1, 2>>), NewReader(<<2, 1>>)}
    /\ gt = NoDriver

MosaicNext == NcRead \/ NcWrite

MosaicSpec == MosaicInit /\ [][MosaicNext]_vars

\* ------------------------------------------------------------------ claims

LoadOps == {"load", "load_by_coords", "load_by_geom", "load_by_pixel"}
DeriveOps == LoadOps \cup {"crop", "apply_mask"}

\* The shape a node's array must have: (n_rows, n_cols) for a layer,
\* (n_layers, n_rows, n_cols) for a stack.
NodeShape(n) ==
    IF n.kind = "layer" THEN <<n.geom.n_rows, n.geom.n_cols>>
    ELSE <<Len(n.layer_ids), n.geom.n_rows, n.geom.n_cols>>

\* The last two entries of an array's shape: its pixel rows and columns.
PixelShape(arr) == <<arr.shape[Len(arr.shape) - 1], arr.shape[Len(arr.shape)]>>

\* The receiver as it was before the last call.
Before == last.pre[last.self]

\* C1: in every reachable state, a node whose array is present has an array
\* of exactly the shape of its own geometry, (n_rows, n_cols) for a layer and
\* (n_layers, n_rows, n_cols) for a stack.
C1_ArrayMatchesGeometry ==
    \A i \in 1..Len(nodes) :
       nodes[i].data # <<>> => nodes[i].data[1].shape = NodeShape(nodes[i])

\* C2: a load, load_by_coords, load_by_geom, load_by_pixel, crop or
\* apply_mask call with inplace=False leaves every field of the receiver as
\* it was, and a returned node other than the receiver has the receiver as
\* its parent.
C2_NotInplaceLeavesReceiver ==
    (last.op \in DeriveOps /\ ~ last.inplace) =>
       /\ nodes[last.self] = Before
       /\ (last.ret # 0 /\ last.ret # last.self) => nodes[last.ret].parent = last.self

\* C3: no call turns a Bound node into an Unbound one, and every node that a
\* successful load* call on an Unbound node returns, other than the receiver
\* itself on a non-intersection, is Bound.
C3_BoundStaysBound ==
    /\ \A i \in 1..Len(last.pre) : last.pre[i].data # <<>> => nodes[i].data # <<>>
    /\ ( /\ last.op \in LoadOps /\ ~ last.err /\ last.ret # 0
         /\ Before.data = <<>> /\ ~ (last.ret = last.self /\ last.warn) )
       => nodes[last.ret].data # <<>>

\* C3 witness: a load* call on an Unbound node has returned a new, Bound node.
C3_Witness ==
    /\ last.op \in LoadOps /\ ~ last.err /\ last.ret # 0 /\ last.ret # last.self
    /\ Before.data = <<>> /\ nodes[last.ret].data # <<>>

\* The pixels of array arr, which covers geometry a, that lie inside geometry
\* g (a part of a): rows and columns are the array's last two axes.
PixelsInside(arr, a, g) ==
    LET r0 == a.ul_y - g.ul_y
        c0 == g.ul_x - a.ul_x
        shp == IF Len(arr.shape) = 2 THEN <<g.n_rows, g.n_cols>>
               ELSE <<arr.shape[1], g.n_rows, g.n_cols>>
    IN  [arr EXCEPT !.shape = shp,
                    !.v = [i \in Idx(shp) |->
                             IF Len(shp) = 2 THEN arr.v[<<r0 + i[1], c0 + i[2]>>]
                             ELSE arr.v[<<i[1], r0 + i[2], c0 + i[3]>>]]]

\* C4: crop(B) on a Bound node with geometry A returns a node whose geometry
\* is intersect(A, B) and whose array is A's array inside that intersection
\* when A and B intersect, and returns None when they do not.
C4_CropIsIntersection ==
    ( /\ last.op = "crop" /\ ~ last.inplace /\ ~ last.mask
      /\ Before.data # <<>> /\ Before.data[1].shape = NodeShape(Before)
      /\ Before.data[1].rep = "numpy" /\ Before.data[1].m = <<>> ) =>
       LET ig == GeomIntersection(Before.geom, last.arg)
       IN  /\ ~ last.err
           /\ ig = <<>> => last.ret = 0
           /\ ig # <<>> =>
                /\ last.ret # 0
                /\ nodes[last.ret].geom = ig[1]
                /\ nodes[last.ret].data = <<PixelsInside(Before.data[1], Before.geom, ig[1])>>

\* The window <<row, col, row_size, col_size>> as the bounds
\* <<row start, row stop, col start, col stop>> of the in-memory path.
WindowBounds(w) == <<w[1], w[1] + w[3], w[2], w[2] + w[4]>>

\* A window that lies wholly inside geometry g.
WindowInside(g, w) ==
    /\ w[1] >= 0 /\ w[2] >= 0
    /\ w[1] + w[3] <= g.n_rows /\ w[2] + w[4] <= g.n_cols

\* C5: for one node and one pixel window inside it, the node read from disk
\* by load and the node sliced from memory by _load_array have the same
\* geometry and the same array shape.
C5_PathsAgree ==
    \A i \in 1..Len(nodes) : \A w \in Windows :
       ( /\ nodes[i].data # <<>> /\ nodes[i].io # 0
         /\ nodes[i].data[1].shape = NodeShape(nodes[i])
         /\ WindowInside(nodes[i].geom, w) ) =>
          LET lazy == load(nodes, i, 0, w, "", FALSE)
              mem == LoadArray(nodes, i, WindowBounds(w), <<>>, 0, "", FALSE)
          IN  /\ lazy.err = mem.err
              /\ ~ lazy.err =>
                   /\ lazy.ns[lazy.ret].geom = mem.ns[mem.ret].geom
                   /\ lazy.ns[lazy.ret].data[1].shape = mem.ns[mem.ret].data[1].shape

\* The part of window w that lies inside geometry g, as <<n_rows, n_cols>>.
ClippedSize(g, w) ==
    << Min(w[1] + w[3], g.n_rows) - Max(w[1], 0),
       Min(w[2] + w[4], g.n_cols) - Max(w[2], 0) >>

\* C6: load_by_pixel with a window that overlaps the node's geometry, wholly
\* or partly, raises nothing and returns a node whose n_rows and n_cols are
\* the size of the clipped window and whose array has that pixel shape.
C6_LoadByPixelClips ==
    ( /\ last.op = "load_by_pixel" /\ ~ last.inplace
      /\ (Before.data # <<>> \/ Before.io # 0)
      /\ (Before.data # <<>> => Before.data[1].shape = NodeShape(Before))
      /\ ClippedSize(Before.geom, last.arg)[1] > 0
      /\ ClippedSize(Before.geom, last.arg)[2] > 0 ) =>
       /\ ~ last.err
       /\ last.ret # 0
       /\ <<nodes[last.ret].geom.n_rows, nodes[last.ret].geom.n_cols>>
             = ClippedSize(Before.geom, last.arg)
       /\ nodes[last.ret].data # <<>>
       /\ PixelShape(nodes[last.ret].data[1]) = ClippedSize(Before.geom, last.arg)

\* The root geometry of the receiver before the last call.
RootGeomBefore == last.pre[parent_root(last.pre, last.self)].geom

\* C7: load_by_coords with a coordinate inside the root geometry returns a
\* node whose geometry is 1x1 and whose array holds the source value at the
\* pixel (row, col) = xy2rc(x, y).
C7_LoadByCoordsOnePixel ==
    ( /\ last.op = "load_by_coords" /\ ~ last.inplace
      /\ (Before.data # <<>> \/ Before.io # 0)
      /\ PointInside(RootGeomBefore, last.arg[1], last.arg[2])
      /\ PointInside(Before.geom, last.arg[1], last.arg[2])
      /\ (Before.data # <<>> =>
             /\ Before.data[1].shape = NodeShape(Before)
             /\ Before.data[1].m = <<>>)
      /\ (Before.data = <<>> => Before.geom = FileGeom) ) =>
       LET rc == xy2rc(Before.geom, last.arg[1], last.arg[2])
           one == [n_rows |-> 1, n_cols |-> 1,
                   ul_x |-> Before.geom.ul_x + rc[2], ul_y |-> Before.geom.ul_y - rc[1]]
       IN  /\ ~ last.err
           /\ last.ret # 0
           /\ nodes[last.ret].geom.n_rows = 1 /\ nodes[last.ret].geom.n_cols = 1
           /\ nodes[last.ret].data # <<>>
           /\ IF Before.data # <<>>
              THEN nodes[last.ret].data[1].v = PixelsInside(Before.data[1], Before.geom, one).v
              ELSE \A l \in 0..(FileLayers - 1) :
                     LET ix == IF Before.kind = "layer" THEN <<0, 0>> ELSE <<l, 0, 0>>
                     IN  ix \in DOMAIN nodes[last.ret].data[1].v =>
                            nodes[last.ret].data[1].v[ix]
                              = FileVal(IF Before.kind = "layer" THEN 0 ELSE l, rc[1], rc[2])

\* C8: crop or load_by_geom, on a node that is Unbound or whose geometry does
\* not contain the requested one, goes to load and returns a Bound node when
\* the geometries intersect; it returns None only when they do not.
C8_UnboundDispatchLoads ==
    ( /\ last.op \in {"crop", "load_by_geom"} /\ ~ last.inplace /\ ~ last.mask
      /\ (Before.data = <<>> \/ ~ GeomWithin(Before.geom, last.arg))
      /\ GeomIntersects(Before.geom, last.arg)
      /\ Before.io # 0 ) =>
       /\ ~ last.err
       /\ last.ret # 0
       /\ nodes[last.ret].data # <<>>

\* C9: load_by_geom with a geometry that does not intersect the node raises
\* nothing, warns, reads nothing and returns the receiver unchanged.
C9_LoadByGeomOutside ==
    ( /\ last.op = "load_by_geom"
      /\ ~ GeomIntersects(RootGeomBefore, last.arg)
      /\ ~ GeomIntersects(Before.geom, last.arg) ) =>
       /\ ~ last.err
       /\ last.warn
       /\ last.reads = <<>>
       /\ last.ret = last.self
       /\ nodes = last.pre

\* C10: load_by_coords with a coordinate outside the root geometry, with
\* inplace either False or True, raises nothing, reads nothing and returns
\* the receiver with its geometry and array as they were.
C10_LoadByCoordsOutside ==
    ( /\ last.op = "load_by_coords"
      /\ ~ PointInside(RootGeomBefore, last.arg[1], last.arg[2]) ) =>
       /\ ~ last.err
       /\ last.reads = <<>>
       /\ last.ret = last.self
       /\ nodes = last.pre

\* C10 witness: an in-place load_by_coords outside the root geometry has
\* handed back the receiver, with a warning.
C10_Witness ==
    /\ last.op = "load_by_coords" /\ last.inplace
    /\ ~ PointInside(RootGeomBefore, last.arg[1], last.arg[2])
    /\ last.ret = last.self /\ last.warn /\ ~ last.err

\* The last call asked the driver for a window and the driver had no data.
ReadGaveNothing ==
    /\ last.reads # <<>>
    /\ DriverRead(KindRank(Before.kind), last.reads[1]) = <<>>

\* C11: when the driver's read returns no data, a load fails, returns no node
\* and leaves the arena as it was, also with inplace=True; and load without
\* any driver fails before a read is made.
C11_ReadFailure ==
    (last.op \in LoadOps) =>
       /\ ReadGaveNothing => (last.err /\ last.ret = 0 /\ nodes = last.pre)
       /\ (last.op = "load" /\ Before.io = 0) =>
             (last.err /\ last.reads = <<>> /\ nodes = last.pre)

\* C11 witness: an in-place load whose read gave no data has failed.
C11_Witness ==
    /\ last.op \in LoadOps /\ last.inplace /\ ReadGaveNothing /\ last.err

\* C12: with inplace=True, load, load_by_coords, load_by_geom, load_by_pixel,
\* crop and apply_mask, when they have a result (crop: the node is Bound and
\* the geometries intersect), return the receiver itself, and the receiver's
\* label, io and parent are as before.
C12_InplaceReturnsReceiver ==
    ( /\ last.op \in DeriveOps /\ last.inplace /\ ~ last.err
      /\ (last.op = "crop" =>
            (Before.data # <<>> /\ GeomIntersects(Before.geom, last.arg))) ) =>
       /\ last.ret = last.self
       /\ nodes[last.self].label = Before.label
       /\ nodes[last.self].io = Before.io
       /\ nodes[last.self].parent = Before.parent

\* C13: after a child has been derived from a node, an in-place call on that
\* node changes neither the child nor the geometry and array reached through
\* the child's parent, nor the geometry of the child's root.
C13_ChildrenSnapshotParent ==
    (last.op \in DeriveOps /\ last.inplace) =>
       \A c \in 1..Len(last.pre) :
          (last.pre[c].parent = last.self) =>
             /\ nodes[c] = last.pre[c]
             /\ nodes[nodes[c].parent].geom = last.pre[last.pre[c].parent].geom
             /\ nodes[nodes[c].parent].data = last.pre[last.pre[c].parent].data
             /\ nodes[parent_root(nodes, c)].geom
                   = last.pre[parent_root(last.pre, c)].geom

\* All layers of the last stack construction have one geometry.
Congruent == \A k \in 1..Len(last.arg.geoms) : last.arg.geoms[k] = last.arg.geoms[1]

\* C14: RasterStack construction from layers that all have the same geometry
\* succeeds, whatever their labels are; from layers of which two have
\* different geometries it fails and produces no stack.
C14_CongruentLayersConstruct ==
    (last.op = "stack_of_layers") =>
       /\ Congruent => (~ last.err /\ last.ret # 0)
       /\ ~ Congruent => (last.err /\ nodes = <<>>)

\* Position of a label in the receiver's index before the call (0: absent).
PosBefore(label) == IndexOf(Before.layer_ids, label, 1)

\* First and last position selected by the label slice last.arg = <<a, b>>.
FirstPos == IF last.arg[1] = -1 THEN 1 ELSE PosBefore(last.arg[1])
LastPos == IF last.arg[2] = -1 THEN Len(Before.layer_ids) ELSE PosBefore(last.arg[2])

\* C15: on a Bound stack, stack[a:b, ..] with a and b labels of the stack (or
\* open ends), a not positioned after b, returns a stack of exactly the
\* layers from a's position to b's position, both included, with that many
\* entries in its stack dimension and with those layers' labels.
C15_LabelSliceInclusive ==
    ( /\ last.op = "getitem"
      /\ Before.data # <<>> /\ Before.data[1].shape = NodeShape(Before)
      /\ FirstPos >= 1 /\ LastPos >= 1 /\ FirstPos <= LastPos ) =>
       /\ ~ last.err
       /\ last.ret # 0
       /\ nodes[last.ret].layer_ids = SubSeq(Before.layer_ids, FirstPos, LastPos)
       /\ nodes[last.ret].data # <<>>
       /\ nodes[last.ret].data[1].shape[1] = LastPos - FirstPos + 1

\* C16: stack[a:b, ..] with a label that is not in the stack fails with an
\* IndexError, and with b positioned before a in the stack's label order it
\* fails with an error.
C16_BadLabelSliceFails ==
    (last.op = "getitem") =>
       /\ (FirstPos = 0 \/ LastPos = 0) => (last.err /\ last.cls = "IndexError")
       /\ (FirstPos >= 1 /\ LastPos >= 1 /\ LastPos < FirstPos) => last.err

\* Number of layer ids the last write selected: the given ones, or all.
SelectedLayers ==
    IF last.arg.layer_ids = <<>> THEN Len(Before.layer_ids)
    ELSE Len(last.arg.layer_ids[1])

\* The last write was called with a number of filepaths that does not fit.
CountMismatch ==
    \/ last.arg.stack /\ last.arg.n_paths > 1
    \/ ~ last.arg.stack /\ last.arg.n_paths # SelectedLayers

\* C17: RasterStack.write with stack=True and more than one filepath, or with
\* stack=False and a number of filepaths other than the number of selected
\* layer ids, fails, and no driver has been opened or written to.
C17_WriteCountsFirst ==
    (last.op = "stack_write" /\ CountMismatch) => (last.err /\ last.events = <<>>)

\* C17 witness: a write of layers with one filepath for two layer ids has
\* failed without a driver event.
C17_Witness ==
    /\ last.op = "stack_write" /\ ~ last.arg.stack
    /\ last.arg.layer_ids # <<>> /\ last.arg.n_paths < SelectedLayers
    /\ Before.data # <<>>
    /\ last.err /\ last.events = <<>>

\* The arrays the driver was asked to write in the last call.
WrittenArrays == {last.events[k][2] : k \in {j \in 1..Len(last.events) : last.events[j][1] = "write"}}

\* C18: RasterLayer.write(filepath, data) writes the data passed when one is
\* given, the node's own array when data is None, and fails without a driver
\* write when neither is present.
C18_WritePrefersArgument ==
    (last.op = "layer_write" /\ last.arg.ext \in {"tif", "nc"}) =>
       /\ last.arg.data # <<>> =>
             (~ last.err /\ \A a \in WrittenArrays : a.v = last.arg.data[1].v
                         /\ WrittenArrays # {})
       /\ (last.arg.data = <<>> /\ Before.data # <<>>) =>
             (~ last.err /\ \A a \in WrittenArrays : a.v = Before.data[1].v
                         /\ WrittenArrays # {})
       /\ (last.arg.data = <<>> /\ Before.data = <<>>) =>
             (last.err /\ WrittenArrays = {})

\* C19: crop and load_by_geom with apply_mask=True, on a Bound node and a
\* geometry that intersects it (also where the window starts at a row or
\* column greater than 0), return a node that has the cropped array's shape
\* and values, with a mask of that same shape.
C19_MaskHasCroppedShape ==
    ( /\ last.op \in {"crop", "load_by_geom"} /\ last.mask /\ ~ last.inplace
      /\ Before.data # <<>> /\ Before.data[1].shape = NodeShape(Before)
      /\ Before.data[1].rep = "numpy" /\ Before.data[1].m = <<>>
      /\ GeomWithin(Before.geom, last.arg) ) =>
       LET want == PixelsInside(Before.data[1], Before.geom, last.arg)
       IN  /\ ~ last.err
           /\ last.ret # 0
           /\ nodes[last.ret].data # <<>>
           /\ nodes[last.ret].data[1].shape = want.shape
           /\ nodes[last.ret].data[1].v = want.v
           /\ nodes[last.ret].data[1].m # <<>>
           /\ DOMAIN nodes[last.ret].data[1].m[1] = Idx(want.shape)

\* The driver keys of self._files opened on file f in writer w.
DriversOf(w, f) == {k \in 1..Len(w.files) : w.files[k] = f}

\* C20: NetCdfWriter.write creates the driver of a file in the first write
\* that reaches the file and registers it; every later write that reaches
\* the file writes through that same driver, also when an earlier write with
\* apply_tiling=True skipped the file; no file ever has two drivers.
C20_OneDriverPerFile ==
    last.op = "nc_write" =>
       /\ \A f \in Files : Cardinality(DriversOf(writer, f)) <= 1
       /\ \A i \in 1..Len(last.looked) :
             LET f == last.looked[i]
             IN  /\ Cardinality(DriversOf(writer, f)) = 1
                 /\ DriversOf(last.pre, f) \subseteq DriversOf(writer, f)
                 /\ \E j \in 1..Len(last.written) :
                       /\ last.written[j][1] = f
                       /\ last.written[j][2] \in DriversOf(writer, f)

\* The tile of the mosaic that holds the column x.
TileOfX(x) == CHOOSE t \in MosaicTiles : \E c \in 1..TileCols : x_coords(t)[c] = x

\* The reader of the call with its mosaic's tiles listed the other way round.
ReversedBefore == [last.pre EXCEPT !.tiles = <<last.pre.tiles[2], last.pre.tiles[1]>>]

\* C21: a read of a mosaic of two adjacent tiles gives one dataset over the
\* whole mosaic, with the columns in coordinate order, every pixel taken
\* from the one tile that holds it, and the same dataset whichever tile is
\* listed (and read) first.
C21_MergeByCoordinates ==
    ( /\ last.op = "nc_read" /\ last.arg.bad = {}
      /\ last.arg.engine \in {"netcdf4", "xarray"} ) =>
       /\ ~ last.err /\ reader.data # <<>>
       /\ LET ds == reader.data[1]
              other == nc_read(ReversedBefore, last.arg.data_variables,
                               last.arg.engine, last.mask, last.arg.bad)
          IN  /\ ds.xs = [i \in 1..(2 * TileCols) |-> i - 1]
              /\ ds.ys = y_coords
              /\ other.rd.data = reader.data
              /\ \A var \in DOMAIN ds.v :
                    /\ DOMAIN ds.v[var] =
                          {<<ds.ys[r], ds.xs[c]>> : r \in 1..Len(ds.ys), c \in 1..Len(ds.xs)}
                    /\ \A p \in DOMAIN ds.v[var] :
                          ds.v[var][p] =
                             load_data_per_data_variable(last.pre, TileOfX(p[2]), var,
                                                         last.mask)[p]

C21_Witness ==
    /\ last.op = "nc_read" /\ ~ last.err /\ last.pre.tiles = <<2, 1>>
    /\ reader.data # <<>> /\ Len(reader.data[1].xs) = 2 * TileCols

\* C22: a read that fails leaves the reader's data and data geometry as they
\* were; a write that fails leaves the writer's drivers and the file_id
\* column of its register as they were.
C22_FailureLeavesNoPartialState ==
    /\ (last.op = "nc_read" /\ last.err) =>
          /\ reader.data = last.pre.data
          /\ reader.data_geom = last.pre.data_geom
    /\ (last.op = "nc_write" /\ last.err) =>
          /\ writer.files = last.pre.files
          /\ writer.has_col = last.pre.has_col
          /\ writer.file_id = last.pre.file_id

\* The decoder calls of the last read for a variable on a tile.
DecoderCallsFor(t, var) ==
    {i \in 1..Len(last.decoded) :
        last.decoded[i].tile = t /\ last.decoded[i].data_variable = var}

\* The variables the last read asked for.
Requested ==
    IF last.arg.data_variables = <<>>
    THEN {DataVariables[i] : i \in 1..Len(DataVariables)}
    ELSE {last.arg.data_variables[i] : i \in 1..Len(last.arg.data_variables)}

\* C24: a read with a decoder calls it once for every requested variable
\* of every tile, with the variable's own nodata value, scale factor,
\* offset and data type of the reference file.
C24_DecoderGetsOwnEncoding ==
    (last.op = "nc_read" /\ last.mask /\ ~ last.err) =>
       \A t \in MosaicTiles, var \in Requested :
          /\ Cardinality(DecoderCallsFor(t, var)) = 1
          /\ \A i \in DecoderCallsFor(t, var) :
                /\ last.decoded[i].nodataval = nodatavals[var]
                /\ last.decoded[i].scale_factor = scale_factors[var]
                /\ last.decoded[i].offset = offsets[var]
                /\ last.decoded[i].dtype = dtypes[var]

\* The files a write of the chunk data has data for.
FilesOfChunk(reg, data, apply_tiling) ==
    {f \in Files : /\ apply_tiling => tile_id(reg, f) \in data.tiles
                   /\ file_coords(reg, f) \subseteq data.layers}

\* C28: in one write of a chunk that has the layers of every file it is
\* written to, every such file is written the chunk's selection by the
\* file's own tile (with apply_tiling) and its own layers, whatever files
\* the loop handled before it.
C28_WriteSelectsFromInput ==
    ( /\ last.op = "nc_write"
      /\ \A g \in Files : last.pre.has_col => last.pre.file_id[g] # 0
      /\ \A g \in Files :
            (last.mask => tile_id(last.pre.reg, g) \in last.arg.tiles) =>
               g \in FilesOfChunk(last.pre.reg, last.arg, last.mask) ) =>
       \A f \in FilesOfChunk(last.pre.reg, last.arg, last.mask) :
          \E j \in 1..Len(last.written) :
             /\ last.written[j][1] = f
             /\ last.written[j][3] =
                   [tiles |-> IF last.mask THEN {tile_id(last.pre.reg, f)}
                              ELSE last.arg.tiles,
                    layers |-> file_coords(last.pre.reg, f)]

\* C25: converting a dense array or a labelled dataset to 'dataframe' with
\* as many coordinate axes as dimension names gives the table of the
\* dataset that converting the same data with the same axes to 'xarray'
\* gives; a table is never accepted as a source.
C25_DataframeIsFlattenedDataset ==
    last.op = "convert" =>
       LET a == last.arg
           xr_ds == convert_data_type(a.data, a.coords, "xarray", a.band)
       IN  /\ ( /\ a.data_type = "dataframe" /\ Len(a.coords) = NDimNames
                /\ xr_ds # <<>> ) =>
                  last.ret = <<[xr_ds[1] EXCEPT !.rep = "dataframe"]>>
           /\ a.data.rep = "dataframe" => last.ret = <<>>

\* C26: on every Bound layer the conversion with the layer's own y and x
\* coordinates succeeds: the data property of a 'numpy' layer gives the
\* stored array, and a 2-D array read for the layer's geometry converts.
C26_LayerConversionSucceeds ==
    \A i \in 1..Len(nodes) :
       (nodes[i].kind = "layer" /\ nodes[i].data # <<>>) =>
          /\ nodes[i].data_type = "numpy" /\ nodes[i].data[1].rep = "numpy" =>
                ConvertNodeData(nodes[i], nodes[i].data[1], nodes[i].data_type, <<>>)
                   = nodes[i].data
          /\ LET g == nodes[i].geom
                 read == ArrayOf(<<g.n_rows, g.n_cols>>)
             IN  ConvertNodeData(nodes[i], read, "numpy", <<g>>) = <<read>>

\* C27: load_by_geom on an Unbound node asks the driver for the rows
\* min_row..max_row and the columns min_col..max_col of the intersection,
\* the window that the slice of the Bound path covers: max_row - min_row + 1
\* rows and max_col - min_col + 1 columns.
C27_DiskWindowIncludesMax ==
    ( /\ last.op = "load_by_geom"
      /\ Before.data = <<>> /\ Before.io # 0 /\ Before.parent = 0
      /\ GeomIntersects(Before.geom, last.arg) ) =>
       LET ig == GeomIntersection(Before.geom, last.arg)
           e == rel_extent(Before.geom.ul_x, Before.geom.ul_y, inner_extent(ig[1]))
       IN  /\ Len(last.reads) = 1
           /\ last.reads[1] = <<e[2], e[1], e[4] - e[2] + 1, e[3] - e[1] + 1>>

\* C29: get_layer_data on a stack built by from_array or from_io changes
\* nothing: the stack has the array and geometry it had, and every layer
\* object of its raster_layers, the requested one and all others, has the
\* array (none stays none) and geometry it had.
C29_GetLayerDataMutatesNothing ==
    last.op = "get_layer_data" =>
       /\ nodes[last.self].data = Before.data
       /\ nodes[last.self].geom = Before.geom
       /\ nodes[last.self].layer_ids = Before.layer_ids
       /\ nodes[last.self].raster_layers.refs = Before.raster_layers.refs
       /\ \A k \in 1..Len(Before.raster_layers.objs) :
             /\ nodes[last.self].raster_layers.objs[k].data
                   = Before.raster_layers.objs[k].data
             /\ nodes[last.self].raster_layers.objs[k].geom
                   = Before.raster_layers.objs[k].geom

C29_Witness ==
    /\ last.op = "get_layer_data" /\ ~ last.err /\ last.events # <<>>
    /\ Before.data # <<>> /\ Len(Before.raster_layers.refs) = FileLayers

\* The pixels of the file of g in the window of the given shape at (row, col).
TifWindow(g, row, col, shape) ==
    [p \in Idx(shape) |-> g.file[1].v[<<row + p[1], col + p[2]>>]]

\* C23: writing an array with an (identity) encoder to a fresh file succeeds
\* and puts the array into the file, and reading a window with the
\* (identity) decoder, auto_decode off, succeeds and returns the file's
\* pixels, so that the data read back is the data written; encoder and
\* decoder are called once with the band's nodataval, scale_factor, offset
\* and NumPy data type name.
C23_RoundTrip ==
    /\ ( /\ last.op = "tif_write" /\ last.arg.encoder
         /\ last.pre.drv[1].mode = "w" /\ ~ last.pre.drv[1].src
         /\ last.pre.file = <<>> /\ last.arg.data.layers = 1
         /\ last.arg.row = 0 /\ last.arg.col = 0 ) =>
           /\ ~ last.err /\ gt.file # <<>>
           /\ gt.file[1].shape = last.arg.data.shape
           /\ TifWindow(gt, 0, 0, last.arg.data.shape) = last.arg.data.v
           /\ last.coded = <<CoderCall(gt.drv[1], GDAL_TO_NUMPY_DTYPE[gt.drv[1].dtype])>>
    /\ ( /\ last.op = "tif_read" /\ last.arg.decoder
         /\ last.pre.drv[1].src /\ ~ last.pre.drv[1].auto_decode ) =>
           LET w == IF last.arg.win = <<>>
                    THEN <<0, 0, gt.file[1].shape[1], gt.file[1].shape[2]>>
                    ELSE last.arg.win
           IN  /\ ~ last.err
               /\ last.ret = <<TifWindow(gt, w[1], w[2], <<w[3], w[4]>>)>>
               /\ last.coded = <<CoderCall(gt.drv[1], GDAL_TO_NUMPY_DTYPE[gt.drv[1].dtype])>>

\* C30: a write-mode driver constructed without a shape creates no file; its
\* first write creates the file with the shape of the data; and a write,
\* flush or close on the driver that created the file never removes or
\* re-creates it: the file stays, and what an earlier write put outside the
\* window written now is still there.
C30_LazyCreateNeverDestroy ==
    /\ ( /\ last.op = "tif_init" /\ last.arg.mode = "w" /\ last.arg.shape = <<>> ) =>
           /\ ~ last.err /\ gt.file = last.pre.file /\ gt.gen = last.pre.gen
    /\ ( /\ last.op = "tif_write" /\ ~ last.err /\ last.pre.file = <<>> ) =>
           /\ gt.file # <<>> /\ gt.gen = last.pre.gen + 1
           /\ gt.file[1].shape = last.arg.data.shape
    /\ ( /\ last.op \in {"tif_write", "tif_flush", "tif_close"}
         /\ last.pre.file # <<>> /\ last.pre.drv[1].mode = "w"
         /\ last.pre.file[1].by = last.pre.drv[1].inst ) =>
           /\ gt.file # <<>> /\ gt.gen = last.pre.gen
           /\ gt.file[1].shape = last.pre.file[1].shape
           /\ \A p \in DOMAIN last.pre.file[1].v :
                 ( \/ last.op # "tif_write"
                   \/ ~ ( /\ p[1] - last.arg.row \in 0..(last.arg.data.shape[1] - 1)
                          /\ p[2] - last.arg.col \in 0..(last.arg.data.shape[2] - 1) ) ) =>
                    gt.file[1].v[p] = last.pre.file[1].v[p]

====
